---- MODULE Spec2Model ----
(***************************************************************************)
(* Model of the Pomodoro session state machine of x-underclass-preventer   *)
(* (src/background.js): the persisted SessionState, the wake alarm, the    *)
(* command handlers, the alarm callback and the startup normalization.     *)
(*                                                                         *)
(* Time is in milliseconds, as in the code.  The clock is a variable that  *)
(* advances between handlers by whole Ticks and, inside a handler, by a    *)
(* Jitter between two consecutive Date.now() reads.                        *)
(***************************************************************************)
EXTENDS Integers, Sequences, FiniteSets, TLC

(* ------------------------------ bounds -------------------------------- *)
\* largest number of whole minutes a request payload carries
MaxMinutes == 1
\* number of Ticks the clock may advance after StartTime
MaxTicks == 3
\* number of Jitters the clock may advance inside handlers
MaxJitter == 1

\* longest suspension, in Ticks, after which normalizeState is called
MaxGap == 1001

\* most messages on their way to the tab when another one is sent to it
MaxChannel == 1
\* seconds the clock moves on past the end of a phase while the countdown ticks
MaxSeconds == 2

(* ------------------------- constants of the code ---------------------- *)
DEFAULT_FOCUS_MINUTES == 25
DEFAULT_BREAK_MINUTES == 5
STORAGE_KEY == "xUnderclassPomodoroState"
ALARM_NAME == "pomodoroTransition"
\* minimum lead time of the alarm, scheduleAlarm
ALARM_LEAD_MS == 200
MAX_ITERATIONS == 1000
MS_PER_MINUTE == 60 * 1000

\* JavaScript null in a timestamp or remainingMs field (those are >= 0)
Null == -1

\* granularity of the clock between handlers, one minute
Tick == 60000
\* time that may pass between two Date.now() reads of one handler
Jitter == 100
\* value of Date.now() in the initial state
StartTime == 600000

DEFAULT_STATE ==
  [ status |-> "idle", phase |-> "focus",
    focusMinutes |-> DEFAULT_FOCUS_MINUTES,
    breakMinutes |-> DEFAULT_BREAK_MINUTES,
    cycleStart |-> Null, nextTransition |-> Null, remainingMs |-> Null ]

(* ------------------------------ numbers ------------------------------- *)
Max(a, b) == IF a >= b THEN a ELSE b
Min(a, b) == IF a <= b THEN a ELSE b

\* A value of a minutes field of a request: undefined (field missing) or a
\* number, kept as a count h of half minutes (h = 3 is 1.5 minutes).
Undefined == [kind |-> "undefined", h |-> 0]
Number(h) == [kind |-> "number", h |-> h]
\* a stored whole number of minutes as such a value
Minutes(m) == Number(2 * m)

\* Math.round of h half minutes: ties go up
MathRound(h) == (h + 1) \div 2

\* a in place of a ?? b
CoalesceNoFallback(a, b) == a

\* a ?? b
Coalesce(a, b) == IF a.kind = "undefined" THEN b ELSE a

\* Number(undefined) is NaN and NaN || 0 is 0
toMs(minutes) ==
  LET parsed == minutes
      orZero == IF parsed.kind = "number" THEN parsed.h ELSE 0
  IN Max(1, MathRound(orZero)) * 60 * 1000

\* Math.round(ms / 60000), ms >= 0
minutesFromMs(ms) == Max(1, (2 * ms + MS_PER_MINUTE) \div (2 * MS_PER_MINUTE))

\* typeof x === "number"
IsNumber(x) == x # Null
\* !x for a timestamp: null and 0 are falsy
Falsy(x) == x = Null \/ x = 0

(* ------------------------------- clock -------------------------------- *)
JitterOf(t) == (t - StartTime) % Tick
\* the values a Date.now() read may return when the previous read returned t
Later(t) == {u \in {t, t + Jitter} : JitterOf(u) <= MaxJitter * Jitter}

(* ------------------------------ payloads ------------------------------ *)
\* missing, -0.5, 0, 0.5 and the whole minutes up to MaxMinutes
Payloads ==
  {Undefined} \cup {Number(h) : h \in -1 .. 1} \cup {Minutes(m) : m \in 1 .. MaxMinutes}

(* ------------------------------- state -------------------------------- *)
VARIABLES
  storage,     \* chrome.storage.local: a function on a subset of {STORAGE_KEY}
  now,         \* the clock, the value of the last Date.now()
  alarm,       \* the `when` of the pending alarm ALARM_NAME, or Null
  alarmQueued, \* names of fired alarms whose callback has not run yet
  inbox,       \* the request on its way to the onMessage listener: <<>> or <<m>>
  op,          \* the last handler that ran: a request type, "alarm", "initialize"
  prevOp,      \* when op is GET_STATE: the handler that ran before it
  response,    \* what that handler passed to sendResponse: <<>> or <<state>>
  writes,      \* the states that handler wrote to storage, in order
  broadcasts,  \* the states that handler broadcast as STATE_UPDATED, in order
  normCall,    \* <<input, output>> of that handler's normalizeState call
  tasks,       \* handlers suspended at an await, by the presenter they serve
  round,       \* the requests that were in progress together, and where they began
  presenter    \* a content script: its variables, its overlay, its messages

vars == <<storage, now, alarm, alarmQueued, inbox, op, prevOp, response, writes,
          broadcasts, normCall, tasks, round, presenter>>

HasState == STORAGE_KEY \in DOMAIN storage
Stored == storage[STORAGE_KEY]

(* ------------------------- storage primitives ------------------------- *)
\* loadState: <<>> stands for null
loadState(s) == IF STORAGE_KEY \in DOMAIN s THEN <<s[STORAGE_KEY]>> ELSE <<>>

\* { ...stored, ...DEFAULT_STATE }
MergeDefaultsOver(stored) == DEFAULT_STATE @@ stored

\* { ...DEFAULT_STATE, ...stored }
Merge(stored) == stored @@ DEFAULT_STATE

\* ensureState: the state it returns and the states it writes
ensureState(s) ==
  LET stored == loadState(s)
  IN IF stored # <<>>
       THEN [state |-> Merge(stored[1]), writes |-> <<>>]
       ELSE [state |-> DEFAULT_STATE, writes |-> <<DEFAULT_STATE>>]

\* scheduleAlarm without the minimum lead time
scheduleAlarmNoLead(state, t) ==
  IF state.status # "running" \/ Falsy(state.nextTransition)
    THEN Null
    ELSE state.nextTransition

\* scheduleAlarm: the pending alarm it leaves, t the value of Date.now()
scheduleAlarm(state, t) ==
  IF state.status # "running" \/ Falsy(state.nextTransition)
    THEN Null
    ELSE Max(t + ALARM_LEAD_MS, state.nextTransition)


\* saveState(state) followed by broadcastState(state)
SaveAndBroadcast(state) == [state |-> state, writes |-> <<state>>, broadcasts |-> <<state>>]

(* ---------------------------- normalization --------------------------- *)
\* the condition of the while loop without the cap
CatchUpContinuesUncapped(c, t, safetyCounter) ==
  c.nextTransition # Null /\ c.nextTransition <= t

\* the condition of the while loop of normalizeState
CatchUpContinues(c, t, safetyCounter) ==
  c.nextTransition # Null /\ c.nextTransition <= t /\ safetyCounter < MAX_ITERATIONS

\* the body of the while loop; c is [phase, cycleStart, nextTransition]
CatchUpStep(c, focusMs, breakMs) ==
  IF c.phase = "focus"
    THEN [phase |-> "break", cycleStart |-> c.nextTransition,
          nextTransition |-> c.nextTransition + breakMs]
    ELSE [phase |-> "focus", cycleStart |-> c.nextTransition,
          nextTransition |-> c.nextTransition + focusMs]

\* the while loop of normalizeState
RECURSIVE CatchUp(_, _, _, _, _)
CatchUp(c, t, focusMs, breakMs, safetyCounter) ==
  IF CatchUpContinues(c, t, safetyCounter)
    THEN CatchUp(CatchUpStep(c, focusMs, breakMs), t, focusMs, breakMs, safetyCounter + 1)
    ELSE c

\* normalizeState, t the value of its Date.now()
normalizeState(state, t) ==
  LET normalized == state @@ DEFAULT_STATE
  IN IF normalized.status = "break_ready"
       THEN IF ~IsNumber(normalized.remainingMs)
              THEN [normalized EXCEPT !.remainingMs = toMs(Minutes(normalized.breakMinutes))]
              ELSE normalized
     ELSE IF normalized.status # "running" \/ Falsy(normalized.nextTransition)
       THEN normalized
     ELSE IF /\ normalized.phase = "focus"
             /\ IsNumber(normalized.nextTransition)
             /\ normalized.nextTransition <= t
       THEN [normalized EXCEPT !.status = "break_ready", !.phase = "break",
                               !.cycleStart = Null, !.nextTransition = Null,
                               !.remainingMs = toMs(Minutes(normalized.breakMinutes))]
     ELSE LET focusMs == toMs(Minutes(normalized.focusMinutes))
              breakMs == toMs(Minutes(normalized.breakMinutes))
              c == CatchUp([phase |-> normalized.phase,
                            cycleStart |-> normalized.cycleStart,
                            nextTransition |-> normalized.nextTransition],
                           t, focusMs, breakMs, 0)
          IN [normalized EXCEPT !.phase = c.phase, !.cycleStart = c.cycleStart,
                                !.nextTransition = c.nextTransition]

(* ----------------------------- transitions ---------------------------- *)
\* transitionToBreakReady taking remainingMs from focusMinutes
transitionToBreakReadyFocusMs(state) ==
  LET breakMs == toMs(Minutes(state.focusMinutes))
  IN SaveAndBroadcast([state EXCEPT !.status = "break_ready", !.phase = "break",
                                    !.cycleStart = Null, !.nextTransition = Null,
                                    !.remainingMs = breakMs])

transitionToBreakReady(state) ==
  LET breakMs == toMs(Minutes(state.breakMinutes))
  IN SaveAndBroadcast([state EXCEPT !.status = "break_ready", !.phase = "break",
                                    !.cycleStart = Null, !.nextTransition = Null,
                                    !.remainingMs = breakMs])

\* transitionToNextFocus without "cycleStart: now"
transitionToNextFocusStaleStart(state, t) ==
  LET focusMs == toMs(Minutes(state.focusMinutes))
  IN SaveAndBroadcast([state EXCEPT !.status = "running", !.phase = "focus",
                                    !.nextTransition = t + focusMs,
                                    !.remainingMs = Null])

\* t the value of its Date.now()
transitionToNextFocus(state, t) ==
  LET focusMs == toMs(Minutes(state.focusMinutes))
  IN SaveAndBroadcast([state EXCEPT !.status = "running", !.phase = "focus",
                                    !.cycleStart = t, !.nextTransition = t + focusMs,
                                    !.remainingMs = Null])

(* ------------------------------ commands ------------------------------ *)
\* What a handler did: the state it returns, the states it wrote and
\* broadcast, the alarm it leaves pending, its normalizeState call.
Outcome(state, w, b, al, n) ==
  [state |-> state, writes |-> w, broadcasts |-> b, alarm |-> al, norm |-> n]

\* the tail "saveState; broadcastState; scheduleAlarm; return updated" of a
\* command, e the result of its ensureState, t the Date.now() of scheduleAlarm
Persist(e, updated, t) ==
  Outcome(updated, e.writes \o <<updated>>, <<updated>>, scheduleAlarm(updated, t), <<>>)

\* the early return of a command in an invalid state, al the pending alarm
Unchanged(e, al) == Outcome(e.state, e.writes, <<>>, al, <<>>)

\* adjustRunningDurations keeping cycleStart and measuring the new duration from it
adjustRunningDurationsKeepsStart(state, focusMs, breakMs, t) ==
  LET durationMs == IF state.phase = "focus" THEN focusMs ELSE breakMs
  IN [state EXCEPT !.nextTransition = state.cycleStart + durationMs]

adjustRunningDurations(state, focusMs, breakMs, t) ==
  LET durationMs == IF state.phase = "focus" THEN focusMs ELSE breakMs
      elapsed == Max(0, t - (IF state.cycleStart = Null THEN t ELSE state.cycleStart))
      clampedElapsed == Min(elapsed, durationMs)
      remaining == Max(0, durationMs - clampedElapsed)
  IN [state EXCEPT !.cycleStart = t - clampedElapsed, !.nextTransition = t + remaining]

\* setDurations without the clamp of remainingMs while paused
setDurationsKeepsRemaining(s, al, focusMinutes, breakMinutes, t1, t2) ==
  LET e == ensureState(s)
      state == e.state
      focusMs == toMs(Coalesce(focusMinutes, Minutes(state.focusMinutes)))
      breakMs == toMs(Coalesce(breakMinutes, Minutes(state.breakMinutes)))
      updated0 == [state EXCEPT !.focusMinutes = minutesFromMs(focusMs),
                                !.breakMinutes = minutesFromMs(breakMs)]
      updated ==
        IF state.status = "running"
          THEN adjustRunningDurations(updated0, focusMs, breakMs, t1)
        ELSE IF state.status = "break_ready"
          THEN [updated0 EXCEPT !.phase = "break", !.status = "break_ready",
                                !.remainingMs = breakMs]
        ELSE updated0
  IN Persist(e, updated, t2)

\* setDurations without the break_ready case
setDurationsStaleBreak(s, al, focusMinutes, breakMinutes, t1, t2) ==
  LET e == ensureState(s)
      state == e.state
      focusMs == toMs(Coalesce(focusMinutes, Minutes(state.focusMinutes)))
      breakMs == toMs(Coalesce(breakMinutes, Minutes(state.breakMinutes)))
      updated0 == [state EXCEPT !.focusMinutes = minutesFromMs(focusMs),
                                !.breakMinutes = minutesFromMs(breakMs)]
      updated ==
        IF state.status = "running"
          THEN adjustRunningDurations(updated0, focusMs, breakMs, t1)
        ELSE IF state.status = "paused"
          THEN LET durationMs == IF updated0.phase = "focus" THEN focusMs ELSE breakMs
                   remaining == Min(IF state.remainingMs = Null THEN durationMs
                                    ELSE state.remainingMs, durationMs)
               IN [updated0 EXCEPT !.remainingMs = remaining]
        ELSE updated0
  IN Persist(e, updated, t2)

\* t1 the Date.now() of adjustRunningDurations, t2 that of scheduleAlarm
setDurations(s, al, focusMinutes, breakMinutes, t1, t2) ==
  LET e == ensureState(s)
      state == e.state
      focusMs == toMs(Coalesce(focusMinutes, Minutes(state.focusMinutes)))
      breakMs == toMs(Coalesce(breakMinutes, Minutes(state.breakMinutes)))
      updated0 == [state EXCEPT !.focusMinutes = minutesFromMs(focusMs),
                                !.breakMinutes = minutesFromMs(breakMs)]
      updated ==
        IF state.status = "running"
          THEN adjustRunningDurations(updated0, focusMs, breakMs, t1)
        ELSE IF state.status = "paused"
          THEN LET durationMs == IF updated0.phase = "focus" THEN focusMs ELSE breakMs
                   remaining == Min(IF state.remainingMs = Null THEN durationMs
                                    ELSE state.remainingMs, durationMs)
               IN [updated0 EXCEPT !.remainingMs = remaining]
        ELSE IF state.status = "break_ready"
          THEN [updated0 EXCEPT !.phase = "break", !.status = "break_ready",
                                !.remainingMs = breakMs]
        ELSE updated0
  IN Persist(e, updated, t2)

\* startSession timing the focus phase with the stored minutes, not the payload
startSessionStoredDuration(s, al, focusMinutes, breakMinutes, t1, t2) ==
  LET e == ensureState(s)
      state == e.state
      focusMs == toMs(Coalesce(focusMinutes, Minutes(state.focusMinutes)))
      breakMs == toMs(Coalesce(breakMinutes, Minutes(state.breakMinutes)))
      updated == [state EXCEPT !.status = "running", !.phase = "focus",
                               !.focusMinutes = minutesFromMs(focusMs),
                               !.breakMinutes = minutesFromMs(breakMs),
                               !.cycleStart = t1,
                               !.nextTransition = t1 + toMs(Minutes(state.focusMinutes)),
                               !.remainingMs = Null]
  IN Persist(e, updated, t2)

\* t1 the Date.now() of line 202, t2 that of scheduleAlarm
startSession(s, al, focusMinutes, breakMinutes, t1, t2) ==
  LET e == ensureState(s)
      state == e.state
      focusMs == toMs(Coalesce(focusMinutes, Minutes(state.focusMinutes)))
      breakMs == toMs(Coalesce(breakMinutes, Minutes(state.breakMinutes)))
      updated == [state EXCEPT !.status = "running", !.phase = "focus",
                               !.focusMinutes = minutesFromMs(focusMs),
                               !.breakMinutes = minutesFromMs(breakMs),
                               !.cycleStart = t1, !.nextTransition = t1 + focusMs,
                               !.remainingMs = Null]
  IN Persist(e, updated, t2)

\* startBreak without the break_ready check
startBreakUnguarded(s, al, t1, t2) ==
  LET e == ensureState(s)
      state == e.state
      breakMs == toMs(Minutes(state.breakMinutes))
      updated == [state EXCEPT !.status = "running", !.phase = "break",
                               !.cycleStart = t1, !.nextTransition = t1 + breakMs,
                               !.remainingMs = Null]
  IN Persist(e, updated, t2)

\* startBreak timing the break with focusMinutes
startBreakFocusDuration(s, al, t1, t2) ==
  LET e == ensureState(s)
      state == e.state
      breakMs == toMs(Minutes(state.focusMinutes))
      updated == [state EXCEPT !.status = "running", !.phase = "break",
                               !.cycleStart = t1, !.nextTransition = t1 + breakMs,
                               !.remainingMs = Null]
  IN IF state.status # "break_ready" THEN Unchanged(e, al) ELSE Persist(e, updated, t2)

startBreak(s, al, t1, t2) ==
  LET e == ensureState(s)
      state == e.state
      breakMs == toMs(Minutes(state.breakMinutes))
      updated == [state EXCEPT !.status = "running", !.phase = "break",
                               !.cycleStart = t1, !.nextTransition = t1 + breakMs,
                               !.remainingMs = Null]
  IN IF state.status # "break_ready" THEN Unchanged(e, al) ELSE Persist(e, updated, t2)

\* pauseSession without "nextTransition: null"
pauseSessionKeepsTransition(s, al, t1, t2) ==
  LET e == ensureState(s)
      state == e.state
      remainingMs == Max(0, state.nextTransition - t1)
      updated == [state EXCEPT !.status = "paused", !.remainingMs = remainingMs]
  IN IF state.status # "running" \/ Falsy(state.nextTransition)
       THEN Unchanged(e, al)
       ELSE Persist(e, updated, t2)

pauseSession(s, al, t1, t2) ==
  LET e == ensureState(s)
      state == e.state
      remainingMs == Max(0, state.nextTransition - t1)
      updated == [state EXCEPT !.status = "paused", !.nextTransition = Null,
                               !.remainingMs = remainingMs]
  IN IF state.status # "running" \/ Falsy(state.nextTransition)
       THEN Unchanged(e, al)
       ELSE Persist(e, updated, t2)

\* resumeSession without "cycleStart"
resumeSessionKeepsStart(s, al, t1, t2) ==
  LET e == ensureState(s)
      state == e.state
      focusMs == toMs(Minutes(state.focusMinutes))
      breakMs == toMs(Minutes(state.breakMinutes))
      durationMs == IF state.phase = "focus" THEN focusMs ELSE breakMs
      remainingMs == Min(IF state.remainingMs = Null THEN durationMs
                         ELSE state.remainingMs, durationMs)
      updated == [state EXCEPT !.status = "running",
                               !.nextTransition = t1 + remainingMs,
                               !.remainingMs = Null]
  IN IF state.status # "paused" THEN Unchanged(e, al) ELSE Persist(e, updated, t2)

\* resumeSession restarting the phase instead of continuing it
resumeSessionRestartsPhase(s, al, t1, t2) ==
  LET e == ensureState(s)
      state == e.state
      focusMs == toMs(Minutes(state.focusMinutes))
      breakMs == toMs(Minutes(state.breakMinutes))
      durationMs == IF state.phase = "focus" THEN focusMs ELSE breakMs
      updated == [state EXCEPT !.status = "running", !.cycleStart = t1,
                               !.nextTransition = t1 + durationMs,
                               !.remainingMs = Null]
  IN IF state.status # "paused" THEN Unchanged(e, al) ELSE Persist(e, updated, t2)

resumeSession(s, al, t1, t2) ==
  LET e == ensureState(s)
      state == e.state
      focusMs == toMs(Minutes(state.focusMinutes))
      breakMs == toMs(Minutes(state.breakMinutes))
      durationMs == IF state.phase = "focus" THEN focusMs ELSE breakMs
      remainingMs == Min(IF state.remainingMs = Null THEN durationMs
                         ELSE state.remainingMs, durationMs)
      cycleStart == Max(0, t1 - (durationMs - remainingMs))
      updated == [state EXCEPT !.status = "running", !.cycleStart = cycleStart,
                               !.nextTransition = t1 + remainingMs,
                               !.remainingMs = Null]
  IN IF state.status # "paused" THEN Unchanged(e, al) ELSE Persist(e, updated, t2)

\* stopSession without "remainingMs: null"
stopSessionKeepsRemaining(s, al, t1, t2) ==
  LET e == ensureState(s)
      state == e.state
      updated == [state EXCEPT !.status = "idle", !.phase = "focus",
                               !.cycleStart = Null, !.nextTransition = Null]
  IN Persist(e, updated, t2)

\* stopSession without "phase: focus"
stopSessionKeepsPhase(s, al, t1, t2) ==
  LET e == ensureState(s)
      state == e.state
      updated == [state EXCEPT !.status = "idle",
                               !.cycleStart = Null, !.nextTransition = Null,
                               !.remainingMs = Null]
  IN Persist(e, updated, t2)

stopSession(s, al, t1, t2) ==
  LET e == ensureState(s)
      state == e.state
      updated == [state EXCEPT !.status = "idle", !.phase = "focus",
                               !.cycleStart = Null, !.nextTransition = Null,
                               !.remainingMs = Null]
  IN Persist(e, updated, t2)

\* GET_STATE answering with the defaults, as its catch branch does
getStateDefaults(s, al) == Outcome(DEFAULT_STATE, ensureState(s).writes, <<>>, al, <<>>)

\* the GET_STATE case of the message listener
getState(s, al) == Unchanged(ensureState(s), al)


(* --------------------------- alarm and startup ------------------------ *)
\* handleAlarm without the return for a nextTransition that is still ahead
handleAlarmTransitionsEarly(s, t1, t2, t3, t4, t5, t6) ==
  LET e == ensureState(s)
      state == e.state
      focusExpired == /\ state.status = "running"
                      /\ state.phase = "focus"
                      /\ IsNumber(state.nextTransition)
                      /\ state.nextTransition <= t1
      breakExpired == /\ state.status = "running"
                      /\ state.phase = "break"
                      /\ IsNumber(state.nextTransition)
                      /\ state.nextTransition <= t1
      normalized == normalizeState(state, t2)
      saved == e.writes \o <<normalized>>
      norm == <<state, normalized>>
      Then(tr) == Outcome(tr.state, saved \o tr.writes, tr.broadcasts,
                          scheduleAlarm(tr.state, t6), norm)
      Only == Outcome(normalized, saved, <<>>, scheduleAlarm(normalized, t6), norm)
  IN IF focusExpired
       THEN Then(transitionToBreakReady(normalized))
     ELSE IF \/ breakExpired
             \/ /\ normalized.status = "running"
                /\ normalized.phase = "break"
                /\ IsNumber(normalized.nextTransition)
                /\ normalized.nextTransition <= t3
       THEN Then(transitionToNextFocus(normalized, t5))
     ELSE IF normalized.status # "running" \/ Falsy(normalized.nextTransition)
       THEN Only
     ELSE IF normalized.phase = "focus"
       THEN Then(transitionToBreakReady(normalized))
     ELSE IF normalized.phase = "break"
       THEN Then(transitionToNextFocus(normalized, t5))
     ELSE Only

\* handleAlarm for an alarm named ALARM_NAME.  The values of its Date.now()
\* reads, in program order: t1 line 108, t2 in normalizeState, t3 line 135,
\* t4 line 147, t5 in transitionToNextFocus, t6 in scheduleAlarm.
handleAlarm(s, t1, t2, t3, t4, t5, t6) ==
  LET e == ensureState(s)
      state == e.state
      focusExpired == /\ state.status = "running"
                      /\ state.phase = "focus"
                      /\ IsNumber(state.nextTransition)
                      /\ state.nextTransition <= t1
      breakExpired == /\ state.status = "running"
                      /\ state.phase = "break"
                      /\ IsNumber(state.nextTransition)
                      /\ state.nextTransition <= t1
      normalized == normalizeState(state, t2)
      saved == e.writes \o <<normalized>>
      norm == <<state, normalized>>
      Then(tr) == Outcome(tr.state, saved \o tr.writes, tr.broadcasts,
                          scheduleAlarm(tr.state, t6), norm)
      Only == Outcome(normalized, saved, <<>>, scheduleAlarm(normalized, t6), norm)
  IN IF focusExpired
       THEN Then(transitionToBreakReady(normalized))
     ELSE IF \/ breakExpired
             \/ /\ normalized.status = "running"
                /\ normalized.phase = "break"
                /\ IsNumber(normalized.nextTransition)
                /\ normalized.nextTransition <= t3
       THEN Then(transitionToNextFocus(normalized, t5))
     ELSE IF normalized.status # "running" \/ Falsy(normalized.nextTransition)
       THEN Only
     ELSE IF normalized.nextTransition > t4
       THEN Only
     ELSE IF normalized.phase = "focus"
       THEN Then(transitionToBreakReady(normalized))
     ELSE IF normalized.phase = "break"
       THEN Then(transitionToNextFocus(normalized, t5))
     ELSE Only

\* initializeState, t1 the Date.now() of normalizeState, t2 of scheduleAlarm
initializeState(s, t1, t2) ==
  LET e == ensureState(s)
      normalized == normalizeState(e.state, t1)
  IN Outcome(normalized, e.writes \o <<normalized>>, <<>>,
             scheduleAlarm(normalized, t2), <<e.state, normalized>>)

(* ------------------------------- actions ------------------------------ *)
Message(type, focusMinutes, breakMinutes) ==
  [type |-> type, focusMinutes |-> focusMinutes, breakMinutes |-> breakMinutes]

\* the requests a presenter may send
Messages ==
  {Message(type, f, b) : type \in {"SET_DURATIONS", "START_SESSION"},
                         f \in Payloads, b \in Payloads}
  \cup {Message(type, Undefined, Undefined) :
          type \in {"GET_STATE", "START_BREAK", "PAUSE_SESSION",
                    "RESUME_SESSION", "STOP_SESSION"}}

\* chrome.runtime.sendMessage: a request is on its way to the listener.
\* Handlers run one at a time here: the request is handled before anything
\* else happens.
SendMessage ==
  /\ inbox = <<>>
  /\ \E m \in Messages : inbox' = <<m>>
  /\ UNCHANGED <<storage, now, alarm, alarmQueued, op, prevOp, response, writes, broadcasts, normCall>>
  /\ UNCHANGED <<tasks, round, presenter>>

Receives(type) == inbox # <<>> /\ inbox[1].type = type

\* the effects of a handler on storage, alarms and the record of the run
Apply(type, r, t) ==
  /\ storage' = IF r.writes = <<>> THEN storage
                ELSE (STORAGE_KEY :> r.writes[Len(r.writes)]) @@ storage
  /\ alarm' = r.alarm
  /\ writes' = r.writes
  /\ broadcasts' = r.broadcasts
  /\ normCall' = r.norm
  /\ now' = t
  /\ op' = type
  /\ prevOp' = IF type = "GET_STATE" THEN op ELSE "none"
  /\ UNCHANGED <<tasks, round, presenter>>

\* a case of the onMessage listener: run the handler, answer with its state
Respond(type, r, t) ==
  /\ Apply(type, r, t)
  /\ response' = <<r.state>>
  /\ inbox' = <<>>
  /\ UNCHANGED alarmQueued

GetState ==
  /\ Receives("GET_STATE")
  /\ Respond("GET_STATE", getState(storage, alarm), now)

SetDurations ==
  /\ Receives("SET_DURATIONS")
  /\ \E t1 \in Later(now) : \E t2 \in Later(t1) :
       Respond("SET_DURATIONS",
               setDurations(storage, alarm, inbox[1].focusMinutes,
                            inbox[1].breakMinutes, t1, t2), t2)

StartSession ==
  /\ Receives("START_SESSION")
  /\ \E t1 \in Later(now) : \E t2 \in Later(t1) :
       Respond("START_SESSION",
               startSession(storage, alarm, inbox[1].focusMinutes,
                            inbox[1].breakMinutes, t1, t2), t2)

StartBreak ==
  /\ Receives("START_BREAK")
  /\ \E t1 \in Later(now) : \E t2 \in Later(t1) :
       Respond("START_BREAK", startBreak(storage, alarm, t1, t2), t2)

PauseSession ==
  /\ Receives("PAUSE_SESSION")
  /\ \E t1 \in Later(now) : \E t2 \in Later(t1) :
       Respond("PAUSE_SESSION", pauseSession(storage, alarm, t1, t2), t2)

ResumeSession ==
  /\ Receives("RESUME_SESSION")
  /\ \E t1 \in Later(now) : \E t2 \in Later(t1) :
       Respond("RESUME_SESSION", resumeSession(storage, alarm, t1, t2), t2)

StopSession ==
  /\ Receives("STOP_SESSION")
  /\ \E t1 \in Later(now) : \E t2 \in Later(t1) :
       Respond("STOP_SESSION", stopSession(storage, alarm, t1, t2), t2)

\* chrome.alarms fires the pending alarm at or after its time and queues
\* the onAlarm callback; a one-shot alarm is removed when it fires
AlarmFires ==
  /\ inbox = <<>>
  /\ alarm # Null
  /\ alarm <= now
  /\ alarmQueued = {}
  /\ alarm' = Null
  /\ alarmQueued' = {ALARM_NAME}
  /\ UNCHANGED <<storage, now, inbox, op, prevOp, response, writes, broadcasts, normCall>>
  /\ UNCHANGED <<tasks, round, presenter>>

\* the onAlarm callback runs
HandleAlarm ==
  /\ inbox = <<>>
  /\ ALARM_NAME \in alarmQueued
  /\ \E t1 \in Later(now) : \E t2 \in Later(t1) : \E t3 \in Later(t2) :
     \E t4 \in Later(t3) : \E t5 \in Later(t4) : \E t6 \in Later(t5) :
       Apply("alarm", handleAlarm(storage, t1, t2, t3, t4, t5, t6), t6)
  /\ alarmQueued' = alarmQueued \ {ALARM_NAME}
  /\ response' = <<>>
  /\ UNCHANGED inbox

\* onStartup / onInstalled
InitializeState ==
  /\ inbox = <<>>
  /\ \E t1 \in Later(now) : \E t2 \in Later(t1) :
       Apply("initialize", initializeState(storage, t1, t2), t2)
  /\ response' = <<>>
  /\ UNCHANGED <<inbox, alarmQueued>>

\* time passes while no handler runs
ClockTick ==
  /\ inbox = <<>>
  /\ now + Tick <= StartTime + MaxTicks * Tick + MaxJitter * Jitter
  /\ now' = now + Tick
  /\ UNCHANGED <<storage, alarm, alarmQueued, inbox, op, prevOp, response, writes, broadcasts, normCall>>
  /\ UNCHANGED <<tasks, round, presenter>>

Init ==
  /\ storage = <<>>
  /\ now = StartTime
  /\ alarm = Null
  /\ alarmQueued = {}
  /\ inbox = <<>>
  /\ op = "none"
  /\ prevOp = "none"
  /\ response = <<>>
  /\ writes = <<>>
  /\ broadcasts = <<>>
  /\ normCall = <<>>
  /\ tasks = <<>>
  /\ round = <<>>
  /\ presenter = <<>>

Next ==
  \/ SendMessage
  \/ GetState
  \/ SetDurations
  \/ StartSession
  \/ StartBreak
  \/ PauseSession
  \/ ResumeSession
  \/ StopSession
  \/ AlarmFires
  \/ HandleAlarm
  \/ InitializeState
  \/ ClockTick

Spec == Init /\ [][Next]_vars


(* ====================================================================== *)
(*                               properties                               *)
(* ====================================================================== *)
\* every state the last handler wrote, and the stored one
StoredStates ==
  {writes[i] : i \in DOMAIN writes} \cup (IF HasState THEN {Stored} ELSE {})

\* C1: in every stored state, running has nextTransition set and remainingMs
\* absent; paused and break_ready have remainingMs set and nextTransition
\* absent; idle has cycleStart, nextTransition and remainingMs absent.
TimestampsMatchStatus ==
  \A s \in StoredStates :
    /\ s.status = "running" => s.nextTransition # Null /\ s.remainingMs = Null
    /\ s.status \in {"paused", "break_ready"} =>
         s.remainingMs # Null /\ s.nextTransition = Null
    /\ s.status = "idle" =>
         s.cycleStart = Null /\ s.nextTransition = Null /\ s.remainingMs = Null

\* a pause of a running session has been stored
PausedStored ==
  /\ op = "PAUSE_SESSION"
  /\ writes # <<>>
  /\ HasState
  /\ Stored.status = "paused"
  /\ Stored.remainingMs # Null

\* C2 as stated: phase is break only when status is running or break_ready;
\* idle and paused states have phase focus.
BreakPhaseOnlyRunningOrBreakReady ==
  \A s \in StoredStates :
    /\ s.phase = "break" => s.status \in {"running", "break_ready"}
    /\ s.status \in {"idle", "paused"} => s.phase = "focus"

\* C2 amended: phase is break only when status is running, paused or
\* break_ready; idle states have phase focus.
BreakPhaseNeverIdle ==
  \A s \in StoredStates :
    /\ s.phase = "break" => s.status \in {"running", "paused", "break_ready"}
    /\ s.status = "idle" => s.phase = "focus"

\* a running break was paused, and a break was stopped
PausedBreakStored ==
  /\ op = "PAUSE_SESSION"
  /\ HasState
  /\ Stored.status = "paused"
  /\ Stored.phase = "break"


(* ------------------------- steps of the handlers ---------------------- *)
\* the step in which the listener handles a request of this type
Handles(type) == Receives(type) /\ inbox' = <<>>
\* the step in which the onAlarm callback runs
AlarmRuns == alarmQueued # {} /\ alarmQueued' = {}
\* the state a handler starts from, as ensureState returns it
Loaded == IF HasState THEN Stored ELSE DEFAULT_STATE
\* the values Date.now() may have returned during the step
ReadsOfStep == {now + k * Jitter : k \in 0 .. ((now' - now) \div Jitter)}
\* a whole number of minutes >= 1
IsWholeMinutes(p) == p.kind = "number" /\ p.h >= 2 /\ p.h % 2 = 0
DurationMs(s) ==
  (IF s.phase = "focus" THEN s.focusMinutes ELSE s.breakMinutes) * MS_PER_MINUTE

\* C3: start_session with whole minutes >= 1, from any state, stores and
\* answers running/focus with remainingMs absent, nextTransition - cycleStart
\* = focusMinutes*60000 and the minutes of the payload; a GET_STATE handled
\* right after a start_session answers with that stored running/focus state.
StartSessionThenGetState ==
  [][ /\ ( /\ Handles("START_SESSION")
           /\ IsWholeMinutes(inbox[1].focusMinutes)
           /\ IsWholeMinutes(inbox[1].breakMinutes) )
         => /\ storage'[STORAGE_KEY].status = "running"
            /\ storage'[STORAGE_KEY].phase = "focus"
            /\ storage'[STORAGE_KEY].remainingMs = Null
            /\ storage'[STORAGE_KEY].focusMinutes * 2 = inbox[1].focusMinutes.h
            /\ storage'[STORAGE_KEY].breakMinutes * 2 = inbox[1].breakMinutes.h
            /\ storage'[STORAGE_KEY].nextTransition - storage'[STORAGE_KEY].cycleStart
                 = (inbox[1].focusMinutes.h \div 2) * 60000
            /\ response' = <<storage'[STORAGE_KEY]>>
      /\ (Handles("GET_STATE") /\ op = "START_SESSION")
         => /\ response' = <<Stored>>
            /\ storage' = storage
            /\ Stored.status = "running"
            /\ Stored.phase = "focus"
            /\ Stored.remainingMs = Null
            /\ Stored.nextTransition - Stored.cycleStart = Stored.focusMinutes * 60000
    ]_vars

\* GET_STATE has answered right after a start_session
GetStateAfterStart ==
  /\ op = "GET_STATE"
  /\ prevOp = "START_SESSION"
  /\ response[1].status = "running"
  /\ response[1].focusMinutes = 1
  /\ response[1].nextTransition - response[1].cycleStart = 60000

\* C4: the alarm callback, run on a running/focus state whose nextTransition
\* has elapsed, stores break_ready/break with remainingMs = breakMinutes*60000
\* and cycleStart and nextTransition cleared and leaves no alarm pending; a
\* break_ready state stays break_ready, without countdown and without alarm,
\* in every step but the handling of start_break, start_session, stop_session.
FocusExpiryWaitsInBreakReady ==
  [][ /\ ( /\ AlarmRuns
           /\ HasState
           /\ Stored.status = "running"
           /\ Stored.phase = "focus"
           /\ Stored.nextTransition <= now )
         => /\ storage'[STORAGE_KEY] =
                 [Stored EXCEPT !.status = "break_ready", !.phase = "break",
                                !.cycleStart = Null, !.nextTransition = Null,
                                !.remainingMs = Stored.breakMinutes * 60000]
            /\ alarm' = Null
      /\ ( /\ HasState
           /\ Stored.status = "break_ready"
           /\ ~Handles("START_BREAK")
           /\ ~Handles("START_SESSION")
           /\ ~Handles("STOP_SESSION") )
         => /\ storage'[STORAGE_KEY].status = "break_ready"
            /\ storage'[STORAGE_KEY].phase = "break"
            /\ storage'[STORAGE_KEY].cycleStart = Null
            /\ storage'[STORAGE_KEY].nextTransition = Null
            /\ alarm' = Null
    ]_vars

\* the alarm callback has turned an expired focus into break_ready
FocusExpiredByAlarm ==
  /\ op = "alarm"
  /\ normCall[1].status = "running"
  /\ normCall[1].phase = "focus"
  /\ Stored.status = "break_ready"
  /\ Stored.remainingMs = Stored.breakMinutes * 60000
  /\ Stored.breakMinutes # Stored.focusMinutes
  /\ broadcasts = <<Stored>>
  /\ alarm = Null

\* C5: the alarm callback, run on a running/break state whose nextTransition
\* has elapsed, stores running/focus with cycleStart = now and nextTransition
\* = now + focusMinutes*60000, and neither writes nor broadcasts a state with
\* status break_ready on the way.
BreakExpiryAdvancesToFocus ==
  [][ ( /\ AlarmRuns
        /\ HasState
        /\ Stored.status = "running"
        /\ Stored.phase = "break"
        /\ Stored.nextTransition <= now )
      => /\ \E t \in ReadsOfStep :
              storage'[STORAGE_KEY] =
                [Stored EXCEPT !.status = "running", !.phase = "focus",
                               !.cycleStart = t,
                               !.nextTransition = t + Stored.focusMinutes * 60000,
                               !.remainingMs = Null]
         /\ \A i \in DOMAIN writes' : writes'[i].status # "break_ready"
         /\ \A i \in DOMAIN broadcasts' : broadcasts'[i].status # "break_ready"
    ]_vars

\* the alarm callback has turned an expired break into the next focus
BreakExpiredByAlarm ==
  /\ op = "alarm"
  /\ normCall[1].status = "running"
  /\ normCall[1].phase = "break"
  /\ normCall[1].nextTransition < now
  /\ Stored.status = "running"
  /\ Stored.phase = "focus"
  /\ Stored.cycleStart = now
  /\ broadcasts = <<Stored>>

\* C6: whenever normalizeState returns a running/break state, its input
\* already was in phase break with the same cycleStart and nextTransition.
NormalizeNeverStartsBreak ==
  normCall # <<>> =>
    ( (normCall[2].status = "running" /\ normCall[2].phase = "break")
      => /\ normCall[1].phase = "break"
         /\ normCall[1].cycleStart = normCall[2].cycleStart
         /\ normCall[1].nextTransition = normCall[2].nextTransition )


\* the request was handled as a no-op
NoOp ==
  /\ storage' = storage
  /\ response' = <<Stored>>
  /\ writes' = <<>>
  /\ broadcasts' = <<>>
  /\ alarm' = alarm

\* C7: pause_session when the stored status is not running, resume_session
\* when it is not paused and start_break when it is not break_ready answer
\* with the stored state and write, broadcast and schedule nothing; a
\* pause_session handled right after a pause_session, whatever time passed
\* in between, gets the same answer.
InvalidCommandIsNoOp ==
  [][ /\ (Handles("PAUSE_SESSION") /\ HasState /\ Stored.status # "running") => NoOp
      /\ (Handles("RESUME_SESSION") /\ HasState /\ Stored.status # "paused") => NoOp
      /\ (Handles("START_BREAK") /\ HasState /\ Stored.status # "break_ready") => NoOp
      /\ (Handles("PAUSE_SESSION") /\ op = "PAUSE_SESSION") => response' = response
    ]_vars

\* a pause_session was answered with the already paused state, later on
PausedTwice ==
  /\ op = "PAUSE_SESSION"
  /\ writes = <<>>
  /\ broadcasts = <<>>
  /\ HasState
  /\ Stored.status = "paused"
  /\ response = <<Stored>>
  /\ now >= StartTime + Tick

\* C8: pause_session on a running state that has not expired stores paused
\* with remainingMs = nextTransition - now and the phase kept; resume_session
\* on a paused state with remainingMs = r stores running with the phase kept,
\* nextTransition = now + r and cycleStart = now - (duration - r); a paused
\* state is left as it is by every step but the handling of resume_session,
\* set_durations, start_session and stop_session.
PauseResumeRoundTrip ==
  [][ /\ ( /\ Handles("PAUSE_SESSION")
           /\ HasState
           /\ Stored.status = "running"
           /\ Stored.nextTransition >= now' )
         => \E t \in ReadsOfStep :
              storage'[STORAGE_KEY] =
                [Stored EXCEPT !.status = "paused", !.nextTransition = Null,
                               !.remainingMs = Stored.nextTransition - t]
      /\ ( /\ Handles("RESUME_SESSION")
           /\ HasState
           /\ Stored.status = "paused" )
         => \E t \in ReadsOfStep :
              storage'[STORAGE_KEY] =
                [Stored EXCEPT !.status = "running",
                               !.nextTransition = t + Stored.remainingMs,
                               !.cycleStart = t - (DurationMs(Stored) - Stored.remainingMs),
                               !.remainingMs = Null]
      /\ ( /\ HasState
           /\ Stored.status = "paused"
           /\ ~Handles("RESUME_SESSION")
           /\ ~Handles("SET_DURATIONS")
           /\ ~Handles("START_SESSION")
           /\ ~Handles("STOP_SESSION") )
         => storage' = storage
    ]_vars

\* a session paused in the middle of a phase was resumed later
ResumedMidPhase ==
  /\ op = "RESUME_SESSION"
  /\ writes # <<>>
  /\ Stored.status = "running"
  /\ Stored.cycleStart < now
  /\ Stored.nextTransition > now
  /\ Stored.nextTransition - Stored.cycleStart = DurationMs(Stored)
  /\ now >= StartTime + 2 * Tick

\* C9: stop_session, from any state, stores idle/focus with cycleStart,
\* nextTransition and remainingMs cleared and focusMinutes and breakMinutes
\* kept, and leaves no alarm pending.
StopResetsToIdle ==
  [][ Handles("STOP_SESSION")
      => /\ storage'[STORAGE_KEY] =
              [Loaded EXCEPT !.status = "idle", !.phase = "focus",
                             !.cycleStart = Null, !.nextTransition = Null,
                             !.remainingMs = Null]
         /\ response' = <<storage'[STORAGE_KEY]>>
         /\ alarm' = Null
    ]_vars

\* a session with configured minutes was stopped after its alarm had fired
StoppedSession ==
  /\ op = "STOP_SESSION"
  /\ Stored.status = "idle"
  /\ Stored.focusMinutes = 1
  /\ alarmQueued # {}
  /\ alarm = Null

\* C10: start_break on a break_ready state stores running/break with
\* cycleStart = now, nextTransition = now + breakMinutes*60000 and remainingMs
\* cleared, and leaves the alarm pending for that nextTransition.
StartBreakStartsCountdown ==
  [][ ( /\ Handles("START_BREAK")
        /\ HasState
        /\ Stored.status = "break_ready" )
      => /\ \E t \in ReadsOfStep :
              storage'[STORAGE_KEY] =
                [Stored EXCEPT !.status = "running", !.phase = "break",
                               !.cycleStart = t,
                               !.nextTransition = t + Stored.breakMinutes * 60000,
                               !.remainingMs = Null]
         /\ response' = <<storage'[STORAGE_KEY]>>
         /\ alarm' = storage'[STORAGE_KEY].nextTransition
    ]_vars

\* a break was started from break_ready
BreakStarted ==
  /\ op = "START_BREAK"
  /\ writes # <<>>
  /\ Stored.status = "running"
  /\ Stored.phase = "break"
  /\ Stored.breakMinutes # Stored.focusMinutes
  /\ alarm = Stored.nextTransition


\* the minutes value v stored for the payload value p when w was stored
MinutesFor(p, v, w) ==
  /\ p.kind = "undefined" => v = w
  /\ (p.kind = "number" /\ p.h <= 1) => v = 1
  /\ (p.kind = "number" /\ p.h >= 2) => (2 * v - 1 <= p.h /\ p.h <= 2 * v)

\* the stored minutes after a request with minutes fields follow its payload
PayloadStored ==
  /\ MinutesFor(inbox[1].focusMinutes, storage'[STORAGE_KEY].focusMinutes,
                Loaded.focusMinutes)
  /\ MinutesFor(inbox[1].breakMinutes, storage'[STORAGE_KEY].breakMinutes,
                Loaded.breakMinutes)

\* C11: set_durations on a running state keeps status and phase and, with
\* e = now - cycleStart and D the new duration of the phase, stores
\* cycleStart = now - min(e, D) and nextTransition = now + D - min(e, D);
\* when D <= e the stored nextTransition is now, an alarm is pending, and
\* the alarm callback that runs next performs the phase transition.
SetDurationsWhileRunning ==
  [][ /\ ( /\ Handles("SET_DURATIONS")
           /\ HasState
           /\ Stored.status = "running" )
         => /\ PayloadStored
            /\ \E t \in ReadsOfStep :
                 LET D == DurationMs(storage'[STORAGE_KEY])
                     e == t - Stored.cycleStart
                 IN /\ storage'[STORAGE_KEY] =
                         [Stored EXCEPT
                            !.focusMinutes = storage'[STORAGE_KEY].focusMinutes,
                            !.breakMinutes = storage'[STORAGE_KEY].breakMinutes,
                            !.cycleStart = t - Min(e, D),
                            !.nextTransition = t + D - Min(e, D)]
                    /\ D <= e => /\ storage'[STORAGE_KEY].nextTransition = t
                                 /\ alarm' = now' + ALARM_LEAD_MS
      /\ ( /\ AlarmRuns
           /\ op = "SET_DURATIONS"
           /\ Stored.status = "running"
           /\ Stored.nextTransition <= now )
         => IF Stored.phase = "focus"
              THEN storage'[STORAGE_KEY].status = "break_ready"
              ELSE /\ storage'[STORAGE_KEY].status = "running"
                   /\ storage'[STORAGE_KEY].phase = "focus"
                   /\ storage'[STORAGE_KEY].cycleStart >= now
    ]_vars

\* a running phase was shortened below its elapsed time
ShortenedBelowElapsed ==
  /\ op = "SET_DURATIONS"
  /\ Stored.status = "running"
  /\ Stored.focusMinutes = 1
  /\ Stored.phase = "focus"
  /\ Stored.nextTransition <= now
  /\ Stored.cycleStart = Stored.nextTransition - 60000
  /\ alarm = now + ALARM_LEAD_MS
  /\ alarmQueued = {}

\* C12: set_durations on a state that is not running keeps status and phase;
\* paused: remainingMs becomes min(remainingMs, new duration of the phase);
\* break_ready: remainingMs becomes the new breakMinutes*60000; idle: only
\* focusMinutes and breakMinutes change and the timestamps stay absent.
SetDurationsWhileNotRunning ==
  [][ ( /\ Handles("SET_DURATIONS")
        /\ Loaded.status # "running" )
      => /\ PayloadStored
         /\ storage'[STORAGE_KEY] =
              [Loaded EXCEPT
                 !.focusMinutes = storage'[STORAGE_KEY].focusMinutes,
                 !.breakMinutes = storage'[STORAGE_KEY].breakMinutes,
                 !.remainingMs =
                    IF Loaded.status = "paused"
                      THEN Min(Loaded.remainingMs, DurationMs(storage'[STORAGE_KEY]))
                    ELSE IF Loaded.status = "break_ready"
                      THEN storage'[STORAGE_KEY].breakMinutes * 60000
                    ELSE Null]
         /\ Loaded.status = "idle" =>
              /\ storage'[STORAGE_KEY].cycleStart = Null
              /\ storage'[STORAGE_KEY].nextTransition = Null
    ]_vars

\* the remaining time of a paused focus was cut to a shorter new duration
PausedRemainingClamped ==
  /\ op = "SET_DURATIONS"
  /\ Stored.status = "paused"
  /\ Stored.phase = "focus"
  /\ Stored.focusMinutes = 1
  /\ Stored.remainingMs = 60000
  /\ Stored.cycleStart + 60000 <= now

\* C13: after start_session and set_durations, whatever numbers their
\* payload carries, the stored focusMinutes and breakMinutes are >= 1: a
\* missing value keeps the stored one, a number is rounded and raised to 1.
StoredMinutesAtLeastOne ==
  [][ /\ \A i \in DOMAIN writes' :
           writes'[i].focusMinutes >= 1 /\ writes'[i].breakMinutes >= 1
      /\ (Handles("START_SESSION") \/ Handles("SET_DURATIONS")) => PayloadStored
    ]_vars

\* durations were set with a number for focus and nothing for break
BreakMinutesKept ==
  /\ op = "SET_DURATIONS"
  /\ Stored.focusMinutes = 1
  /\ Stored.breakMinutes = DEFAULT_BREAK_MINUTES


\* C16: every step that changes the stored state broadcasts the new stored
\* state as its last STATE_UPDATED.
EveryChangeIsBroadcast ==
  [][ (HasState /\ storage' # storage)
      => /\ broadcasts' # <<>>
         /\ broadcasts'[Len(broadcasts')] = storage'[STORAGE_KEY]
    ]_vars

\* a command that wrote and broadcast, the alarm callback, the startup
MutatingOperation ==
  \/ InitializeState
  \/ HandleAlarm
  \/ /\ \/ SetDurations
        \/ StartSession
        \/ StartBreak
        \/ PauseSession
        \/ ResumeSession
        \/ StopSession
     /\ broadcasts' # <<>>

\* C17: after every mutating operation an alarm is pending exactly when the
\* stored state is running with a nextTransition, and then its time is
\* max(now + 200, nextTransition).
AlarmFollowsState ==
  [][ MutatingOperation
      => alarm' = IF /\ storage'[STORAGE_KEY].status = "running"
                     /\ storage'[STORAGE_KEY].nextTransition # Null
                    THEN Max(now' + 200, storage'[STORAGE_KEY].nextTransition)
                    ELSE Null
    ]_vars

\* an alarm was pushed 200 ms ahead of a nextTransition that is not later
AlarmWithLeadTime ==
  /\ op \in {"SET_DURATIONS", "RESUME_SESSION"}
  /\ Stored.status = "running"
  /\ Stored.nextTransition < now + 200
  /\ alarm = now + 200

\* C18 as stated: GET_STATE on a running state whose nextTransition has
\* elapsed does not answer with that expired running state.
GetStateNormalizes ==
  [][ ( /\ Handles("GET_STATE")
        /\ HasState
        /\ Stored.status = "running"
        /\ Stored.nextTransition <= now )
      => ~ ( /\ response'[1].status = "running"
             /\ response'[1].nextTransition = Stored.nextTransition )
    ]_vars

\* C18 amended: GET_STATE answers with the stored state as it is, an expired
\* running state included, and writes nothing.
GetStateReturnsStored ==
  [][ (Handles("GET_STATE") /\ HasState)
      => /\ response' = <<Stored>>
         /\ storage' = storage
         /\ writes' = <<>>
         /\ broadcasts' = <<>>
         /\ alarm' = alarm
    ]_vars

\* GET_STATE has answered with an expired running state
GetStateAnsweredExpired ==
  /\ op = "GET_STATE"
  /\ response = <<Stored>>
  /\ Stored.status = "running"
  /\ Stored.nextTransition < now


(* ====================================================================== *)
(*      normalizeState on its own, on drawn inputs, its loop in steps     *)
(* ====================================================================== *)
\* every variable but storage, now, op, response and normCall at rest
Rest ==
  /\ alarm = Null
  /\ alarmQueued = {}
  /\ inbox = <<>>
  /\ prevOp = "none"
  /\ writes = <<>>
  /\ broadcasts = <<>>
  /\ tasks = <<>>
  /\ round = <<>>
  /\ presenter = <<>>

\* how long after nextTransition normalizeState is called, in Ticks
Gaps == (-1 .. 2) \cup (MaxGap - 3 .. MaxGap)

\* a stored state with nextTransition at StartTime, or without one
NormalizeInputs ==
  { [status |-> st, phase |-> ph, focusMinutes |-> f, breakMinutes |-> b,
     cycleStart |-> IF nt = Null THEN Null
                    ELSE nt - toMs(Minutes(IF ph = "focus" THEN f ELSE b)),
     nextTransition |-> nt,
     remainingMs |-> IF st \in {"paused", "break_ready"} THEN toMs(Minutes(b)) ELSE Null] :
      st \in {"idle", "running", "paused", "break_ready"},
      ph \in {"focus", "break"},
      f \in 1 .. MaxMinutes, b \in 1 .. MaxMinutes,
      nt \in {Null, StartTime} }

\* In this specification normCall is <<input, c, safetyCounter>> while the
\* loop runs (op = "loop") and <<input, output, safetyCounter>> after the
\* return (op = "normalizeState").
InitNormalize ==
  /\ \E state \in NormalizeInputs : storage = (STORAGE_KEY :> state)
  /\ \E g \in Gaps : now = StartTime + g * Tick
  /\ op = "none"
  /\ response = <<>>
  /\ normCall = <<>>
  /\ Rest

\* normalizeState gets as far as its loop
ReachesLoop(state, t) ==
  LET normalized == state @@ DEFAULT_STATE
  IN /\ normalized.status = "running"
     /\ ~Falsy(normalized.nextTransition)
     /\ ~ ( /\ normalized.phase = "focus"
            /\ IsNumber(normalized.nextTransition)
            /\ normalized.nextTransition <= t )

NormalizeUnchanged ==
  UNCHANGED <<storage, now, alarm, alarmQueued, inbox, prevOp, writes, broadcasts,
              tasks, round, presenter>>

\* normalizeState(state) returns before its loop
ReturnsEarly ==
  /\ op = "none"
  /\ ~ReachesLoop(Stored, now)
  /\ op' = "normalizeState"
  /\ normCall' = <<Stored, normalizeState(Stored, now), 0>>
  /\ response' = <<normalizeState(Stored, now)>>
  /\ NormalizeUnchanged

\* let { phase, cycleStart, nextTransition } = normalized; safetyCounter = 0
LoopEnters ==
  /\ op = "none"
  /\ ReachesLoop(Stored, now)
  /\ op' = "loop"
  /\ LET normalized == Stored @@ DEFAULT_STATE
     IN normCall' = <<Stored, [phase |-> normalized.phase,
                               cycleStart |-> normalized.cycleStart,
                               nextTransition |-> normalized.nextTransition], 0>>
  /\ UNCHANGED response
  /\ NormalizeUnchanged

\* one iteration of the while loop
LoopIterates ==
  /\ op = "loop"
  /\ CatchUpContinues(normCall[2], now, normCall[3])
  /\ LET normalized == Stored @@ DEFAULT_STATE
     IN normCall' = <<normCall[1],
                      CatchUpStep(normCall[2], toMs(Minutes(normalized.focusMinutes)),
                                  toMs(Minutes(normalized.breakMinutes))),
                      normCall[3] + 1>>
  /\ UNCHANGED <<op, response>>
  /\ NormalizeUnchanged

\* the loop condition fails: return { ...normalized, phase, cycleStart, nextTransition }
LoopExits ==
  /\ op = "loop"
  /\ ~CatchUpContinues(normCall[2], now, normCall[3])
  /\ op' = "normalizeState"
  /\ LET normalized == Stored @@ DEFAULT_STATE
         c == normCall[2]
         out == [normalized EXCEPT !.phase = c.phase, !.cycleStart = c.cycleStart,
                                   !.nextTransition = c.nextTransition]
     IN /\ normCall' = <<normCall[1], out, normCall[3]>>
        /\ response' = <<out>>
  /\ NormalizeUnchanged

NextNormalize ==
  \/ ReturnsEarly
  \/ LoopEnters
  \/ LoopIterates
  \/ LoopExits

\* a call that has begun goes on running
SpecNormalize == InitNormalize /\ [][NextNormalize]_vars /\ WF_vars(NextNormalize)

\* C19: the loop of normalizeState makes at most 1000 phase advances and
\* normalizeState returns; when it returns a running state after fewer than
\* 1000 advances, that state's nextTransition is later than now.
CatchUpIsBounded ==
  /\ [](op = "loop" => normCall[3] <= MAX_ITERATIONS)
  /\ []( ( /\ op = "normalizeState"
           /\ normCall[2].status = "running"
           /\ normCall[2].nextTransition # Null
           /\ normCall[3] < MAX_ITERATIONS )
         => normCall[2].nextTransition > now )
  /\ <>(op = "normalizeState")

\* the loop stopped at the cap with the phase still expired
CatchUpHitTheCap ==
  /\ op = "normalizeState"
  /\ normCall[3] = MAX_ITERATIONS
  /\ normCall[2].status = "running"
  /\ normCall[2].nextTransition <= now

(* ====================================================================== *)
(*               ensureState on its own, on drawn records                 *)
(* ====================================================================== *)
Fields == DOMAIN DEFAULT_STATE

\* two complete records that between them differ from the defaults everywhere
StoredSamples ==
  { [status |-> "running", phase |-> "break", focusMinutes |-> MaxMinutes,
     breakMinutes |-> MaxMinutes, cycleStart |-> StartTime,
     nextTransition |-> StartTime + toMs(Minutes(MaxMinutes)), remainingMs |-> Null],
    [status |-> "paused", phase |-> "focus", focusMinutes |-> 1, breakMinutes |-> 1,
     cycleStart |-> Null, nextTransition |-> Null, remainingMs |-> Tick \div 2] }

\* nothing stored, or a record with some of its fields
InitLoad ==
  /\ \/ storage = <<>>
     \/ \E full \in StoredSamples : \E F \in SUBSET Fields :
          storage = (STORAGE_KEY :> [f \in F |-> full[f]])
  /\ now = StartTime
  /\ op = "none"
  /\ response = <<>>
  /\ normCall = <<>>
  /\ Rest

\* ensureState() is called
EnsureState ==
  /\ op = "none"
  /\ op' = "ensureState"
  /\ LET e == ensureState(storage)
     IN /\ response' = <<e.state>>
        /\ writes' = e.writes
        /\ storage' = IF e.writes = <<>> THEN storage
                      ELSE (STORAGE_KEY :> e.writes[Len(e.writes)]) @@ storage
  /\ UNCHANGED <<now, alarm, alarmQueued, inbox, prevOp, broadcasts, normCall, tasks, round,
                 presenter>>

NextLoad == EnsureState

SpecLoad == InitLoad /\ [][NextLoad]_vars

\* C20: with nothing stored ensureState writes and returns the defaults; with
\* a record it returns the record's fields and the defaults for the missing
\* ones, and writes nothing.
EnsureStateRepairs ==
  [][ (op = "none" /\ op' = "ensureState")
      => IF ~HasState
           THEN /\ response' = <<DEFAULT_STATE>>
                /\ storage' = (STORAGE_KEY :> DEFAULT_STATE)
                /\ DEFAULT_STATE = [status |-> "idle", phase |-> "focus",
                                    focusMinutes |-> 25, breakMinutes |-> 5,
                                    cycleStart |-> Null, nextTransition |-> Null,
                                    remainingMs |-> Null]
           ELSE /\ DOMAIN response'[1] = Fields
                /\ \A f \in Fields :
                     response'[1][f] = IF f \in DOMAIN Stored THEN Stored[f]
                                       ELSE DEFAULT_STATE[f]
                /\ storage' = storage
    ]_vars

\* a record with the status and minutes only came back completed
PartialRecordCompleted ==
  /\ op = "ensureState"
  /\ HasState
  /\ DOMAIN Stored = {"status", "focusMinutes", "breakMinutes"}
  /\ response[1].status = "paused"
  /\ response[1].focusMinutes = 1
  /\ response[1].phase = "focus"
  /\ response[1].remainingMs = Null


(* ====================================================================== *)
(*        the command handlers as async functions: steps at awaits        *)
(* ====================================================================== *)
\* The listener starts a handler and returns; the handler is suspended at
\* every await of a chrome.storage or chrome.tabs call, and other handlers
\* run in between.  A presenter has one command in flight at a time.
Presenters == {"p1", "p2"}

\* what a presenter sends: minutes that passed its sanitizeMinutes
PresenterMessages ==
  {m \in Messages : m.type \in {"SET_DURATIONS", "START_SESSION"}
                      => IsWholeMinutes(m.focusMinutes) /\ m.breakMinutes = m.focusMinutes}

\* { state: null }
NoState == [state |-> "null"]

\* pc: the await the handler is suspended at; req: <<request>>; out:
\* <<outcome of its synchronous part>>; saved: the states it has written
IdleTask == [pc |-> "idle", req |-> <<>>, out |-> <<>>, saved |-> <<>>]

Quiescent == \A p \in Presenters : tasks[p].pc = "idle"

\* The requests in progress together since the listener was last idle.
\* base, at: storage and clock when the first of them was dispatched;
\* started: the requests, in the order of their dispatch.  The round is
\* NoRound when no request is in progress, when there were more requests
\* than presenters and when one of them was rejected.
NoRound == [base |-> <<>>, at |-> Null, started |-> <<>>]

\* the round after a step that rejects nothing
RoundGoesOn == round' = IF \A q \in Presenters : tasks'[q].pc = "idle" THEN NoRound ELSE round

\* the handler the listener calls for a request, on storage s at time t
Handle(m, s, al, t) ==
  CASE m.type = "GET_STATE" -> getState(s, al)
    [] m.type = "SET_DURATIONS" -> setDurations(s, al, m.focusMinutes, m.breakMinutes, t, t)
    [] m.type = "START_SESSION" -> startSession(s, al, m.focusMinutes, m.breakMinutes, t, t)
    [] m.type = "START_BREAK" -> startBreak(s, al, t, t)
    [] m.type = "PAUSE_SESSION" -> pauseSession(s, al, t, t)
    [] m.type = "RESUME_SESSION" -> resumeSession(s, al, t, t)
    [] m.type = "STOP_SESSION" -> stopSession(s, al, t, t)

\* broadcastState(updated) run without waiting for saveState(updated)
broadcastWithoutSave(ok, updated) ==
  [writes |-> IF ok THEN <<updated>> ELSE <<>>, broadcasts |-> <<updated>>]

\* "await saveState(updated); await broadcastState(updated)" up to the await
\* of chrome.tabs.query; ok: chrome.storage.local.set was not rejected
saveThenBroadcast(ok, updated) ==
  IF ok THEN [writes |-> <<updated>>, broadcasts |-> <<updated>>]
        ELSE [writes |-> <<>>, broadcasts |-> <<>>]

\* the .catch of the listener's case
Rejected(m) == IF m.type = "GET_STATE" THEN DEFAULT_STATE ELSE NoState

AsyncUnchanged == UNCHANGED <<now, alarmQueued, inbox, prevOp, normCall, presenter>>

\* the record of a step of the handler serving p
Step(p, w, b, resp) ==
  /\ op' = tasks[p].req[1].type
  /\ writes' = w
  /\ broadcasts' = b
  /\ response' = resp
  /\ storage' = IF w = <<>> THEN storage ELSE (STORAGE_KEY :> w[Len(w)]) @@ storage

\* the synchronous part of the handler has run with outcome r: it answers
\* at once when it has nothing to save, else it is suspended in saveState
Continue(p, r, w) ==
  IF r.writes = <<>>
    THEN /\ Step(p, w, <<>>, <<r.state>>)
         /\ tasks' = [tasks EXCEPT ![p] = IdleTask]
    ELSE /\ Step(p, w, <<>>, <<>>)
         /\ tasks' = [tasks EXCEPT ![p] = [@ EXCEPT !.pc = "save", !.out = <<r>>,
                                                    !.saved = @ \o w]]

\* the listener gets a request of presenter p and calls the handler, which
\* runs up to the await of chrome.storage.local.get
Dispatch(p) ==
  /\ tasks[p].pc = "idle"
  /\ \E m \in PresenterMessages :
       /\ tasks' = [tasks EXCEPT ![p] = [IdleTask EXCEPT !.pc = "load", !.req = <<m>>]]
       /\ round' = IF Quiescent
                     THEN [base |-> storage, at |-> now, started |-> <<m>>]
                   ELSE IF round # NoRound /\ Len(round.started) < Cardinality(Presenters)
                     THEN [round EXCEPT !.started = Append(@, m)]
                   ELSE NoRound
       /\ op' = m.type
  /\ writes' = <<>>
  /\ broadcasts' = <<>>
  /\ response' = <<>>
  /\ UNCHANGED <<storage, alarm>>
  /\ AsyncUnchanged

\* loadState returns: with a record the handler runs on to its saveState or
\* to its return; without one ensureState saves the defaults first
Load(p) ==
  /\ tasks[p].pc = "load"
  /\ IF HasState
       THEN Continue(p, Handle(tasks[p].req[1], storage, alarm, now), <<>>)
       ELSE /\ Step(p, <<>>, <<>>, <<>>)
            /\ tasks' = [tasks EXCEPT ![p] = [@ EXCEPT !.pc = "saveDefault"]]
  /\ RoundGoesOn
  /\ UNCHANGED alarm
  /\ AsyncUnchanged

\* the saveState of ensureState returns and the handler runs on with the
\* defaults as its state
SaveDefault(p) ==
  /\ tasks[p].pc = "saveDefault"
  /\ Continue(p, Handle(tasks[p].req[1], (STORAGE_KEY :> DEFAULT_STATE), alarm, now),
              <<DEFAULT_STATE>>)
  /\ RoundGoesOn
  /\ UNCHANGED alarm
  /\ AsyncUnchanged

\* chrome.storage.local.get or .set is rejected: the handler throws and the
\* listener answers from its catch
Rejects(p) ==
  /\ tasks[p].pc \in {"load", "saveDefault"}
  /\ Step(p, <<>>, <<>>, <<Rejected(tasks[p].req[1])>>)
  /\ tasks' = [tasks EXCEPT ![p] = IdleTask]
  /\ round' = NoRound
  /\ UNCHANGED alarm
  /\ AsyncUnchanged

\* saveState(updated) returns or throws; after it broadcastState sends
\* STATE_UPDATED to the extension and is suspended in chrome.tabs.query
Save(p) ==
  /\ tasks[p].pc = "save"
  /\ \E ok \in BOOLEAN :
       LET r == tasks[p].out[1]
           sb == saveThenBroadcast(ok, r.state)
       IN /\ Step(p, sb.writes, sb.broadcasts,
                  IF ok THEN <<>> ELSE <<Rejected(tasks[p].req[1])>>)
          /\ tasks' = [tasks EXCEPT ![p] =
                         IF ok THEN [@ EXCEPT !.pc = "query", !.saved = @ \o sb.writes]
                               ELSE IdleTask]
          /\ round' = IF ok THEN round ELSE NoRound
  /\ UNCHANGED alarm
  /\ AsyncUnchanged

\* chrome.tabs.query returns: STATE_UPDATED goes to the tabs, scheduleAlarm
\* runs, the handler returns and the listener answers
Finish(p) ==
  /\ tasks[p].pc = "query"
  /\ LET r == tasks[p].out[1]
     IN /\ Step(p, <<>>, <<r.state>>, <<r.state>>)
        /\ alarm' = scheduleAlarm(r.state, now)
  /\ tasks' = [tasks EXCEPT ![p] = IdleTask]
  /\ RoundGoesOn
  /\ AsyncUnchanged

InitAsync ==
  /\ storage = <<>>
  /\ now = StartTime
  /\ alarm = Null
  /\ alarmQueued = {}
  /\ inbox = <<>>
  /\ op = "none"
  /\ prevOp = "none"
  /\ response = <<>>
  /\ writes = <<>>
  /\ broadcasts = <<>>
  /\ normCall = <<>>
  /\ tasks = [p \in Presenters |-> IdleTask]
  /\ round = NoRound
  /\ presenter = <<>>

NextAsync ==
  \/ \E p \in Presenters : Dispatch(p)
  \/ \E p \in Presenters : Load(p)
  \/ \E p \in Presenters : SaveDefault(p)
  \/ \E p \in Presenters : Rejects(p)
  \/ \E p \in Presenters : Save(p)
  \/ \E p \in Presenters : Finish(p)
  \/ ClockTick

SpecAsync == InitAsync /\ [][NextAsync]_vars


\* storage after a handler with outcome r has run alone on storage s
After(s, r) == IF r.writes = <<>> THEN s ELSE (STORAGE_KEY :> r.writes[Len(r.writes)])

\* storage after the handlers of m1 and then m2 have run alone, at time t
SerialPair(s, m1, m2, t) ==
  LET s1 == After(s, Handle(m1, s, Null, t))
  IN After(s1, Handle(m2, s1, Null, t))

\* C14: when two requests were in progress together on a stored state, none
\* was rejected and both have been answered, storage holds what handling them one after the other, in one of
\* the two orders, leaves there.
OverlappingRequestsSerialize ==
  [][ ( /\ round # NoRound
        /\ Len(round.started) = 2
        /\ round.base # <<>>
        /\ now = round.at
        /\ \E p \in Presenters : Load(p) \/ SaveDefault(p) \/ Finish(p)
        /\ \A q \in Presenters : tasks'[q].pc = "idle" )
      => storage' \in { SerialPair(round.base, round.started[1], round.started[2], now),
                        SerialPair(round.base, round.started[2], round.started[1], now) }
    ]_vars

Range(seq) == {seq[i] : i \in DOMAIN seq}

\* C15: a step of a handler sends STATE_UPDATED only with a state that this
\* handler has written to storage, and a step whose write is rejected sends
\* none.
PersistPrecedesBroadcast ==
  [][ (tasks' # tasks)
      => /\ \A state \in Range(broadcasts') :
              \E p \in Presenters :
                /\ tasks'[p] # tasks[p]
                /\ state \in Range(tasks[p].saved) \cup Range(writes')
                /\ writes' # <<>> => storage'[STORAGE_KEY] = state
         /\ response' = <<NoState>> => broadcasts' = <<>>
    ]_vars

\* STATE_UPDATED went out with the state that saveState has just stored,
\* while the other presenter's handler is suspended in its own saveState
BroadcastOfSavedState ==
  /\ HasState
  /\ writes = <<Stored>>
  /\ broadcasts = <<Stored>>
  /\ \E p, q \in Presenters : tasks[p].pc = "query" /\ tasks[q].pc = "save"


(* ====================================================================== *)
(*              the overlay presenter (src/content-script.js)             *)
(* ====================================================================== *)
\* A content script and the background it talks to.  presenter is a record:
\*   pc                  where initialize() is: "start", "requestState",
\*                       "loadShortcuts", "ready" (listener subscribed)
\*   latestState         <<>> for null, else <<state>>
\*   userOverlayActive, isActionInProgress
\*   overlay             the overlay element is in the document
\*   disabled            the action buttons of that element are disabled
\*   countdown           <<>> without overlay, else <<text of the countdown>>
\*   channel             messages on their way from the background to the tab
\*   awaiting            <<>> or <<type>> of the command whose response is awaited
\*   event, sent         the handler that ran last and the request it sent
\*   failed              tabs to which the last broadcast could not be delivered
\*   opened              OPEN_CONTROLS was handled since latestState became
\*                       running/break
\*   previous            after STATE_UPDATED: <<status, phase, flag>> it found
\*   typed               after saveDurations / startSession read the inputs:
\*                       <<input, value>> the user had typed
DEFAULT_FALLBACK_STATE ==
  [status |-> "idle", phase |-> "focus", focusMinutes |-> 25, breakMinutes |-> 5]

\* an input value that Number() turns into NaN
NotANumber == [kind |-> "nan", h |-> 0]

\* the text "--:--"
Dashes == [minutes |-> -1, seconds |-> -1]

\* x?.status and x?.phase, "undefined" for a null x
StatusOf(ls) == IF ls = <<>> THEN "undefined" ELSE ls[1].status
PhaseOf(ls) == IF ls = <<>> THEN "undefined" ELSE ls[1].phase

\* formatMs: minutes and seconds of the text
formatMs(ms) ==
  LET totalSeconds == Max(0, ms \div 1000)
  IN [minutes |-> totalSeconds \div 60, seconds |-> totalSeconds % 60]

\* formatRemaining with a negative remainder let through
formatRemainingUnclamped(state, t) ==
  IF state.status = "paused"
    THEN formatMs(IF state.remainingMs = Null THEN 0 ELSE state.remainingMs)
  ELSE IF state.status = "break_ready"
    THEN formatMs(IF state.remainingMs = Null
                    THEN toMs(Minutes(state.breakMinutes)) ELSE state.remainingMs)
  ELSE IF state.status = "running" /\ ~Falsy(state.nextTransition)
    THEN LET ms == state.nextTransition - t
         IN [minutes |-> (ms \div 1000) \div 60, seconds |-> (ms \div 1000) % 60]
  ELSE Dashes

\* formatRemaining(state) for a state that is not null, t the Date.now()
formatRemaining(state, t) ==
  IF state.status = "paused"
    THEN formatMs(IF state.remainingMs = Null THEN 0 ELSE state.remainingMs)
  ELSE IF state.status = "break_ready"
    THEN formatMs(IF state.remainingMs = Null
                    THEN toMs(Minutes(state.breakMinutes)) ELSE state.remainingMs)
  ELSE IF state.status = "running" /\ ~Falsy(state.nextTransition)
    THEN formatMs(Max(0, state.nextTransition - t))
  ELSE Dashes

\* shouldDisplayOverlay(state) for a state that is not null
shouldDisplayOverlay(state, userOverlayActive) ==
  \/ state.status = "break_ready"
  \/ (state.status = "running" /\ state.phase = "focus")
  \/ state.status = "paused"
  \/ userOverlayActive

\* state ?? DEFAULT_FALLBACK_STATE
Effective(ls) == IF ls = <<>> THEN DEFAULT_FALLBACK_STATE ELSE ls[1]

removeOverlay(p) == [p EXCEPT !.overlay = FALSE, !.disabled = FALSE, !.countdown = <<>>]

\* renderState(state); renderCountdown(state): nothing without overlayElements
render(p, state, t) ==
  IF p.overlay THEN [p EXCEPT !.countdown = <<formatRemaining(state, t)>>] ELSE p

\* updateOverlay(state); ensureOverlay creates the element with enabled buttons
updateOverlay(p, ls, t) ==
  LET effectiveState == Effective(ls)
  IN IF ~shouldDisplayOverlay(effectiveState, p.userOverlayActive)
       THEN removeOverlay(p)
       ELSE render([p EXCEPT !.overlay = TRUE,
                             !.disabled = IF p.overlay THEN p.disabled ELSE FALSE],
                   effectiveState, t)

enteredBreak(previous, current) ==
  /\ StatusOf(previous) = "running"
  /\ PhaseOf(previous) = "focus"
  /\ StatusOf(current) = "running"
  /\ PhaseOf(current) = "break"

enteredFocus(previous, current) ==
  /\ StatusOf(current) = "running"
  /\ PhaseOf(current) = "focus"
  /\ (PhaseOf(previous) # "focus" \/ StatusOf(previous) # "running")

\* the STATE_UPDATED case of the listener that never touches userOverlayActive
onStateUpdatedKeepsFlag(p, ls, t) ==
  updateOverlay([p EXCEPT !.latestState = ls], ls, t)

\* the STATE_UPDATED case of the listener, ls the state of the message
onStateUpdated(p, ls, t) ==
  LET previous == p.latestState
      changed == StatusOf(previous) # StatusOf(ls) \/ PhaseOf(previous) # PhaseOf(ls)
      a == IF changed /\ enteredBreak(previous, ls) THEN FALSE ELSE p.userOverlayActive
      b == IF changed /\ (enteredFocus(previous, ls) \/ StatusOf(ls) = "paused")
             THEN TRUE ELSE a
      c == IF changed /\ StatusOf(ls) = "break_ready" THEN TRUE ELSE b
  IN updateOverlay([p EXCEPT !.latestState = ls, !.userOverlayActive = c], ls, t)

\* the OPEN_CONTROLS case of the listener without "userOverlayActive = true"
onOpenControlsByPolicy(p, ls, t) ==
  LET latest == IF ls # <<>> THEN ls ELSE p.latestState
  IN updateOverlay([p EXCEPT !.latestState = latest], latest, t)

\* the OPEN_CONTROLS case of the listener
onOpenControls(p, ls, t) ==
  LET latest == IF ls # <<>> THEN ls ELSE p.latestState
  IN updateOverlay([p EXCEPT !.latestState = latest, !.userOverlayActive = TRUE], latest, t)

canDismissOverlay(p) ==
  IF p.latestState = <<>> THEN TRUE
  ELSE IF p.latestState[1].status = "running" /\ p.latestState[1].phase = "focus" THEN FALSE
  ELSE IF p.latestState[1].status = "paused" THEN FALSE
  ELSE IF p.latestState[1].status = "break_ready" THEN FALSE
  ELSE TRUE

\* dismissOverlayIfAllowed without the guard
dismissOverlayAlways(p) == removeOverlay([p EXCEPT !.userOverlayActive = FALSE])

dismissOverlayIfAllowed(p) ==
  IF ~canDismissOverlay(p) THEN p
  ELSE removeOverlay([p EXCEPT !.userOverlayActive = FALSE])

\* sanitizeMinutes(value, fallback): whole minutes; fallback is <<>> for
\* undefined (no cached state), else <<minutes>>
sanitizeMinutes(value, fallback) ==
  IF value.kind = "number" /\ value.h > 0
    THEN MathRound(value.h)
    ELSE IF fallback = <<>> THEN DEFAULT_FALLBACK_STATE.focusMinutes ELSE fallback[1]


\* the start of a command handler without its isActionInProgress check
BeginUnguarded(p, m) ==
  [p EXCEPT !.isActionInProgress = TRUE, !.disabled = p.overlay,
            !.awaiting = <<m.type>>, !.sent = <<m>>]

\* the start of a command handler: nothing while a command is in progress,
\* else isActionInProgress = true; setButtonsDisabled(true); dispatch(m)
Begin(p, m) ==
  IF p.isActionInProgress THEN [p EXCEPT !.sent = <<>>]
  ELSE [p EXCEPT !.isActionInProgress = TRUE, !.disabled = p.overlay,
                 !.awaiting = <<m.type>>, !.sent = <<m>>]

\* the request of saveDurations / startSession for the values of the inputs
DurationsMessage(p, type, focusValue, breakValue) ==
  LET cached == p.latestState
      focusMinutes == sanitizeMinutes(focusValue,
                        IF cached = <<>> THEN <<>> ELSE <<cached[1].focusMinutes>>)
      breakMinutes == sanitizeMinutes(breakValue,
                        IF cached = <<>> THEN <<>> ELSE <<cached[1].breakMinutes>>)
  IN Message(type, Minutes(focusMinutes), Minutes(breakMinutes))

\* a command handler after "await dispatch(...)" that takes null for a state
AfterDispatchTakesNull(p, ls, t) ==
  [removeOverlay(p) EXCEPT !.latestState = ls, !.isActionInProgress = FALSE,
                           !.awaiting = <<>>]

\* a command handler that returns when dispatch resolved null
AfterDispatchReturnsOnNull(p, ls, t) ==
  LET type == p.awaiting[1]
      got == [p EXCEPT !.latestState = ls]
      q == IF type = "STOP_SESSION"
             THEN removeOverlay([got EXCEPT !.userOverlayActive = FALSE])
           ELSE IF type = "START_BREAK"
             THEN updateOverlay([got EXCEPT !.userOverlayActive = FALSE], ls, t)
           ELSE IF type = "START_SESSION"
             THEN render([got EXCEPT !.userOverlayActive = TRUE], ls[1], t)
           ELSE render(got, ls[1], t)
  IN IF ls = <<>> THEN [p EXCEPT !.awaiting = <<>>]
     ELSE [q EXCEPT !.isActionInProgress = FALSE, !.disabled = FALSE, !.awaiting = <<>>]

\* a command handler after "await dispatch(...)", ls the state it got:
\* <<>> for null
AfterDispatch(p, ls, t) ==
  LET type == p.awaiting[1]
      got == [p EXCEPT !.latestState = ls]
      q == IF ls = <<>> THEN p
           ELSE IF type = "STOP_SESSION"
             THEN removeOverlay([got EXCEPT !.userOverlayActive = FALSE])
           ELSE IF type = "START_BREAK"
             THEN updateOverlay([got EXCEPT !.userOverlayActive = FALSE], ls, t)
           ELSE IF type = "START_SESSION"
             THEN render([got EXCEPT !.userOverlayActive = TRUE], ls[1], t)
           ELSE render(got, ls[1], t)
  IN [q EXCEPT !.isActionInProgress = FALSE, !.disabled = FALSE, !.awaiting = <<>>]

\* the setInterval callback that drops an expired cached state
countdownTickExpires(p, t) ==
  IF p.latestState = <<>> THEN p
  ELSE IF formatRemaining(p.latestState[1], t) = formatMs(0)
    THEN [p EXCEPT !.latestState = <<>>]
  ELSE render(p, p.latestState[1], t)

\* the setInterval callback of startCountdownTimer
countdownTick(p, t) ==
  IF p.latestState = <<>> THEN p
  ELSE IF shouldDisplayOverlay(p.latestState[1], p.userOverlayActive)
    THEN render(p, p.latestState[1], t)
  ELSE p

\* the tabs chrome.tabs.query returns, in its order; "self" is the presenter
Tabs == <<"before", "self", "after">>

\* broadcastState giving up at the first send that fails
broadcastStateAborting(state, tabs, failing) ==
  LET firstFailure == CHOOSE i \in 1 .. Len(tabs) + 1 :
                        /\ i = Len(tabs) + 1 \/ tabs[i] \in failing
                        /\ \A j \in 1 .. i - 1 : tabs[j] \notin failing
  IN [sentTo |-> IF "query" \in failing THEN <<>>
                 ELSE SubSeq(tabs, 1, Min(firstFailure, Len(tabs))),
      thrown |-> "query" \notin failing /\ firstFailure <= Len(tabs)]

\* broadcastState: the tabs it sends STATE_UPDATED to and whether it throws;
\* failing: the tabs that have no listener (chrome.runtime.lastError), or
\* {"query"} when chrome.tabs.query is rejected
broadcastState(state, tabs, failing) ==
  [sentTo |-> IF "query" \in failing THEN <<>> ELSE tabs, thrown |-> FALSE]

ToTab(type, ls) == [type |-> type, state |-> ls]

\* response?.state ?? null
StateOf(resp) == IF resp = NoState THEN <<>> ELSE <<resp>>

\* the samples of stored states the presenter starts from
SessionSamples ==
  LET running == [DEFAULT_STATE EXCEPT !.status = "running", !.cycleStart = StartTime,
                    !.nextTransition = StartTime + toMs(Minutes(DEFAULT_FOCUS_MINUTES))]
  IN { DEFAULT_STATE,
       running,
       [DEFAULT_STATE EXCEPT !.status = "break_ready", !.phase = "break",
                             !.remainingMs = toMs(Minutes(DEFAULT_BREAK_MINUTES))] }

\* the values of a duration input: a text that is no number, zero, one minute
InputValues == {NotANumber, Number(0), Minutes(1)}

NewPresenter ==
  [pc |-> "start", latestState |-> <<>>, userOverlayActive |-> FALSE,
   isActionInProgress |-> FALSE, overlay |-> FALSE, disabled |-> FALSE,
   countdown |-> <<>>, channel |-> <<>>, awaiting |-> <<>>,
   event |-> "none", sent |-> <<>>, failed |-> {}, opened |-> FALSE,
   previous |-> <<>>, typed |-> <<>>]

OnBreak(ls) == StatusOf(ls) = "running" /\ PhaseOf(ls) = "break"

\* the record of a presenter step: the handler that ran, whether the
\* overlay was opened through OPEN_CONTROLS since the cached state became
\* running/break, and for STATE_UPDATED the cached pair and the flag the
\* handler found
Ran(q, event) ==
  [q EXCEPT !.event = event, !.failed = {},
            !.typed = IF /\ event \in {"saveDurations", "startSession"}
                         /\ ~presenter.isActionInProgress
                        THEN q.typed ELSE <<>>,
            !.previous = IF event = "STATE_UPDATED"
                           THEN <<StatusOf(presenter.latestState),
                                  PhaseOf(presenter.latestState),
                                  presenter.userOverlayActive>>
                           ELSE <<>>,
            !.opened = /\ OnBreak(q.latestState)
                       /\ \/ event = "OPEN_CONTROLS"
                          \/ (OnBreak(presenter.latestState) /\ presenter.opened)]

BackgroundUnchanged ==
  UNCHANGED <<storage, now, alarm, alarmQueued, op, prevOp, response, writes, broadcasts,
              normCall, tasks, round>>

\* a step of the presenter that sends what q.sent holds
PresenterStep(q, event) ==
  /\ presenter' = Ran(q, event)
  /\ inbox' = inbox \o q.sent
  /\ BackgroundUnchanged


Quiet(q) == [q EXCEPT !.sent = <<>>]

\* the buttons renderState leaves visible for the cached state
Visible(button) ==
  LET state == Effective(presenter.latestState)
      isRunningFocus == state.status = "running" /\ state.phase = "focus"
      isBreakRunning == state.status = "running" /\ state.phase = "break"
  IN CASE button = "start" -> state.status = "idle"
       [] button = "start-break" -> state.status = "break_ready"
       [] button = "pause" -> isRunningFocus
       [] button = "resume" -> state.status = "paused"
       [] button = "stop" -> ~(state.status = "idle" /\ ~isBreakRunning)

\* the user can click an action button of the overlay
CanClick(button) ==
  /\ presenter.overlay
  /\ ~presenter.disabled
  /\ Visible(button)

(* ------------------------- the presenter's steps ---------------------- *)
\* initialize() sends GET_STATE
Initialize ==
  /\ presenter.pc = "start"
  /\ PresenterStep([presenter EXCEPT !.pc = "requestState",
                                     !.sent = <<Message("GET_STATE", Undefined, Undefined)>>],
                   "initialize")

\* requestState() resolves; initialize() goes on to loadShortcuts()
StateRequested ==
  /\ presenter.channel # <<>>
  /\ Head(presenter.channel).type = "response"
  /\ presenter.pc = "requestState"
  /\ PresenterStep(Quiet([presenter EXCEPT !.latestState = Head(presenter.channel).state,
                                           !.pc = "loadShortcuts",
                                           !.channel = Tail(@)]),
                   "requestState")

\* loadShortcuts() resolves: updateOverlay, subscribeToMessages, startCountdownTimer
Subscribe ==
  /\ presenter.pc = "loadShortcuts"
  /\ PresenterStep(Quiet(updateOverlay([presenter EXCEPT !.pc = "ready"],
                                       presenter.latestState, now)),
                   "subscribe")

\* a message reaches the tab before subscribeToMessages: no listener
NoListener ==
  /\ presenter.channel # <<>>
  /\ Head(presenter.channel).type # "response"
  /\ presenter.pc # "ready"
  /\ PresenterStep(Quiet([presenter EXCEPT !.channel = Tail(@)]), "none")

ReceiveStateUpdated ==
  /\ presenter.channel # <<>>
  /\ Head(presenter.channel).type = "STATE_UPDATED"
  /\ presenter.pc = "ready"
  /\ PresenterStep(Quiet(onStateUpdated([presenter EXCEPT !.channel = Tail(@)],
                                        Head(presenter.channel).state, now)),
                   "STATE_UPDATED")

ReceiveOpenControls ==
  /\ presenter.channel # <<>>
  /\ Head(presenter.channel).type = "OPEN_CONTROLS"
  /\ presenter.pc = "ready"
  /\ PresenterStep(Quiet(onOpenControls([presenter EXCEPT !.channel = Tail(@)],
                                        Head(presenter.channel).state, now)),
                   "OPEN_CONTROLS")

\* the response to a command resolves its dispatch()
ReceiveResponse ==
  /\ presenter.channel # <<>>
  /\ Head(presenter.channel).type = "response"
  /\ presenter.pc = "ready"
  /\ presenter.awaiting # <<>>
  /\ PresenterStep(Quiet(AfterDispatch([presenter EXCEPT !.channel = Tail(@)],
                                       Head(presenter.channel).state, now)),
                   IF Head(presenter.channel).state = <<>> THEN "null response"
                                                           ELSE "response")

\* the values of the two inputs after the user typed value into one of them:
\* the other one holds the minutes renderState wrote into it
Typed(input, value) ==
  LET state == Effective(presenter.latestState)
  IN [focus |-> IF input = "focus" THEN value ELSE Minutes(state.focusMinutes),
      break |-> IF input = "break" THEN value ELSE Minutes(state.breakMinutes)]

ClickStart ==
  /\ CanClick("start")
  /\ \E input \in {"focus", "break"} : \E value \in InputValues :
       PresenterStep([Begin(presenter,
                            DurationsMessage(presenter, "START_SESSION",
                                             Typed(input, value).focus,
                                             Typed(input, value).break))
                        EXCEPT !.typed = <<input, value>>],
                     "startSession")

\* a change event of one of the two inputs
ChangeDuration ==
  /\ presenter.overlay
  /\ \E input \in {"focus", "break"} : \E value \in InputValues :
       PresenterStep([Begin(presenter,
                            DurationsMessage(presenter, "SET_DURATIONS",
                                             Typed(input, value).focus,
                                             Typed(input, value).break))
                        EXCEPT !.typed = <<input, value>>],
                     "saveDurations")

ClickStartBreak ==
  /\ CanClick("start-break")
  /\ PresenterStep(Begin(presenter, Message("START_BREAK", Undefined, Undefined)),
                   "beginBreak")

ClickPause ==
  /\ CanClick("pause")
  /\ PresenterStep(Begin(presenter, Message("PAUSE_SESSION", Undefined, Undefined)),
                   "pause")

ClickResume ==
  /\ CanClick("resume")
  /\ PresenterStep(Begin(presenter, Message("RESUME_SESSION", Undefined, Undefined)),
                   "resume")

ClickStop ==
  /\ CanClick("stop")
  /\ PresenterStep(Begin(presenter, Message("STOP_SESSION", Undefined, Undefined)),
                   "stop")

\* a click on the close button or on the backdrop
ClickClose ==
  /\ presenter.overlay
  /\ PresenterStep(Quiet(dismissOverlayIfAllowed(presenter)), "dismiss")

\* the one-second interval fires
CountdownTick ==
  /\ presenter.pc = "ready"
  /\ PresenterStep(Quiet(countdownTick(presenter, now)), "tick")


(* ----------------- the background, as the presenter sees it ----------- *)
\* the end of a case of the listener on request m, r the outcome of its
\* handler; failing: the tabs whose send fails.  toSelf: the STATE_UPDATED
\* messages sent to the presenter's tab.  A throw of broadcastState ends the
\* handler before scheduleAlarm and reaches the .catch of the case.
Served(m, r, failing) ==
  LET sends == [i \in DOMAIN r.broadcasts |-> broadcastState(r.broadcasts[i], Tabs, failing)]
      thrown == \E i \in DOMAIN sends : sends[i].thrown
      toSelf == IF r.broadcasts # <<>> /\ "self" \in Range(sends[1].sentTo)
                  THEN <<ToTab("STATE_UPDATED", <<r.broadcasts[1]>>)>> ELSE <<>>
  IN [state |-> IF thrown THEN Rejected(m) ELSE r.state,
      writes |-> r.writes,
      broadcasts |-> r.broadcasts,
      alarm |-> IF thrown THEN alarm ELSE r.alarm,
      norm |-> r.norm,
      toSelf |-> toSelf]

\* the background's side of a step: storage and alarm.  The record of the
\* last handler (op .. normCall) is not kept here: what the handler did is
\* read from the messages it sent to the presenter.
Background(r) ==
  /\ storage' = IF r.writes = <<>> THEN storage
                ELSE (STORAGE_KEY :> r.writes[Len(r.writes)]) @@ storage
  /\ alarm' = r.alarm
  /\ UNCHANGED <<now, alarmQueued, op, prevOp, response, writes, broadcasts, normCall,
                 tasks, round>>

\* what reaches the presenter's tab, in the order it was sent
Delivers(messages, failing) ==
  presenter' = [presenter EXCEPT !.channel = @ \o messages, !.event = "background",
                                 !.sent = <<>>, !.failed = failing]

\* the listener serves the presenter's request
Answers ==
  /\ inbox # <<>>
  /\ \E failing \in SUBSET {"before", "after"} :
       \E handled \in {Handle(Head(inbox), storage, alarm, now)} :
         \E r \in {Served(Head(inbox), handled, failing)} :
           /\ Background(r)
           /\ Delivers(r.toSelf \o <<ToTab("response", StateOf(r.state))>>, failing)
  /\ inbox' = Tail(inbox)

\* chrome.storage rejects the first read of the handler: the .catch answers
HandlingFails ==
  /\ inbox # <<>>
  /\ Delivers(<<ToTab("response", StateOf(Rejected(Head(inbox))))>>, {})
  /\ inbox' = Tail(inbox)
  /\ UNCHANGED <<storage, alarm, now, alarmQueued, op, prevOp, response, writes,
                 broadcasts, normCall, tasks, round>>

\* the commands of a presenter in another tab whose inputs hold the stored
\* minutes
OtherMessages ==
  LET state == ensureState(storage).state
  IN {Message(type, Minutes(state.focusMinutes), Minutes(state.breakMinutes)) :
        type \in {"SET_DURATIONS", "START_SESSION"}}
     \cup {Message(type, Undefined, Undefined) :
             type \in {"START_BREAK", "PAUSE_SESSION", "RESUME_SESSION", "STOP_SESSION"}}

\* the listener serves a command of a presenter in another tab
OtherCommand ==
  /\ Len(presenter.channel) < MaxChannel
  /\ \E m \in OtherMessages : \E failing \in {{}} :
       \E handled \in {Handle(m, storage, alarm, now)} :
         \E r \in {Served(m, handled, failing)} :
           /\ Background(r)
           /\ Delivers(r.toSelf, {})
  /\ UNCHANGED inbox

\* handleActionClick for the presenter's tab
ActionClick ==
  /\ Len(presenter.channel) < MaxChannel
  /\ LET e == ensureState(storage)
     IN /\ Background(Outcome(e.state, e.writes, <<>>, alarm, <<>>))
        /\ Delivers(<<ToTab("OPEN_CONTROLS", <<e.state>>)>>, {})
  /\ UNCHANGED inbox

\* the pending alarm fires at its time and the onAlarm callback runs
AlarmGoesOff ==
  /\ Len(presenter.channel) < MaxChannel
  /\ alarm # Null
  /\ alarm >= now
  /\ alarm <= StartTime + MaxTicks * Tick
  /\ \E handled \in {handleAlarm(storage, alarm, alarm, alarm, alarm, alarm, alarm)} :
     \E failing \in {{}, {"query"}} :
       \E r \in {Served(Message("GET_STATE", Undefined, Undefined), handled, failing)} :
         /\ storage' = IF r.writes = <<>> THEN storage
                       ELSE (STORAGE_KEY :> r.writes[Len(r.writes)]) @@ storage
         /\ alarm' = r.alarm
         /\ Delivers(r.toSelf, {})
  /\ now' = alarm
  /\ UNCHANGED <<inbox, alarmQueued, op, prevOp, response, writes, broadcasts, normCall,
                 tasks, round>>

InitPresenter ==
  /\ storage \in {<<>>} \cup {STORAGE_KEY :> s : s \in SessionSamples}
  /\ now = StartTime
  /\ alarm = IF storage = <<>> THEN Null ELSE scheduleAlarm(storage[STORAGE_KEY], StartTime)
  /\ alarmQueued = {}
  /\ inbox = <<>>
  /\ op = "none"
  /\ prevOp = "none"
  /\ response = <<>>
  /\ writes = <<>>
  /\ broadcasts = <<>>
  /\ normCall = <<>>
  /\ tasks = <<>>
  /\ round = <<>>
  /\ presenter = NewPresenter

NextPresenter ==
  \/ Initialize
  \/ StateRequested
  \/ Subscribe
  \/ NoListener
  \/ ReceiveStateUpdated
  \/ ReceiveOpenControls
  \/ ReceiveResponse
  \/ ClickStart
  \/ ChangeDuration
  \/ ClickStartBreak
  \/ ClickPause
  \/ ClickResume
  \/ ClickStop
  \/ ClickClose
  \/ CountdownTick
  \/ Answers
  \/ HandlingFails
  \/ OtherCommand
  \/ ActionClick

\* a presenter and the background while the clock stands still
SpecPresenter == InitPresenter /\ [][NextPresenter]_vars

\* a presenter and the background over the phases of a session: the alarm
\* goes off, and a broadcast of the alarm may reach no tab
NextSession ==
  \/ Initialize
  \/ StateRequested
  \/ Subscribe
  \/ NoListener
  \/ ReceiveStateUpdated
  \/ ReceiveOpenControls
  \/ ReceiveResponse
  \/ ClickStart
  \/ ClickStartBreak
  \/ ClickPause
  \/ ClickResume
  \/ ClickStop
  \/ ClickClose
  \/ CountdownTick
  \/ Answers
  \/ OtherCommand
  \/ ActionClick
  \/ AlarmGoesOff

SpecSession == InitPresenter /\ [][NextSession]_vars

(* ------------------------ claims on the presenter --------------------- *)
\* C21: when the listener serves a command that broadcasts and the send of
\* STATE_UPDATED to some other tab fails, the message still reaches the
\* presenter's tab, the updated state is stored, the alarm is set for it and
\* the requester is answered with the updated state.
FailedSendIsIgnored ==
  [][\A handled \in {IF inbox = <<>> THEN Unchanged(ensureState(storage), alarm)
                      ELSE Handle(Head(inbox), storage, alarm, now)} :
       (Answers /\ presenter'.failed \cap {"before", "after"} # {}
                /\ handled.broadcasts # <<>>)
         => /\ presenter'.channel =
                 presenter.channel \o <<ToTab("STATE_UPDATED", <<handled.state>>),
                                        ToTab("response", <<handled.state>>)>>
            /\ storage'[STORAGE_KEY] = handled.state
            /\ alarm' = scheduleAlarm(handled.state, now)]_vars

\* a broadcast with a failed send has reached the presenter's tab, followed
\* by the response
SendFailedElsewhere ==
  /\ presenter.failed \cap {"before", "after"} # {}
  /\ Len(presenter.channel) >= 2
  /\ presenter.channel[Len(presenter.channel) - 1].type = "STATE_UPDATED"
  /\ presenter.channel[Len(presenter.channel)].type = "response"
  /\ presenter.channel[Len(presenter.channel)].state # <<>>

\* C22: when the handler of a request fails, the requester is answered: with
\* no state for a command, with the default idle state for GET_STATE; and a
\* presenter whose command is answered with no state keeps its cached state
\* and its forced-open flag, and is ready for the next command.
NoOperationIsFatal ==
  [][/\ HandlingFails =>
          presenter'.channel =
            presenter.channel \o
              <<ToTab("response", IF Head(inbox).type = "GET_STATE"
                                    THEN <<DEFAULT_STATE>> ELSE <<>>)>>
     /\ (ReceiveResponse /\ Head(presenter.channel).state = <<>>) =>
          /\ presenter'.latestState = presenter.latestState
          /\ presenter'.userOverlayActive = presenter.userOverlayActive
          /\ presenter'.overlay = presenter.overlay
          /\ ~presenter'.isActionInProgress]_vars

\* a command of a presenter with a cached state and a set flag was answered
\* with no state
CommandAnsweredWithNull ==
  /\ presenter.event = "null response"
  /\ presenter.latestState # <<>>
  /\ presenter.userOverlayActive
  /\ presenter.overlay

\* C23: after every handler of the presenter (STATE_UPDATED, OPEN_CONTROLS,
\* the response to a command, a dismiss click) the overlay is present exactly
\* when the cached state is break_ready, running/focus or paused, or the
\* forced-open flag is set.
OverlayFollowsPolicy ==
  presenter.event \in {"STATE_UPDATED", "OPEN_CONTROLS", "response", "null response",
                       "dismiss"}
    => presenter.overlay = shouldDisplayOverlay(Effective(presenter.latestState),
                                                presenter.userOverlayActive)

\* C24: whenever the cached state of the presenter is running/break and the
\* overlay was not opened through OPEN_CONTROLS since it became running/break,
\* the overlay is absent.
HiddenDuringBreak ==
  (OnBreak(presenter.latestState) /\ ~presenter.opened) => ~presenter.overlay

\* C25: a STATE_UPDATED whose (status, phase) pair differs from the cached
\* pair clears the forced-open flag and hides the overlay when the pair goes
\* from running/focus to running/break, and sets the flag when the new pair is
\* running/focus, paused or break_ready; a STATE_UPDATED with the cached pair
\* leaves the flag as it was.
FlagFollowsTransition ==
  [][ReceiveStateUpdated =>
       LET previous == presenter.latestState
           current == Head(presenter.channel).state
           changed == \/ StatusOf(previous) # StatusOf(current)
                      \/ PhaseOf(previous) # PhaseOf(current)
       IN /\ (/\ changed
               /\ StatusOf(previous) = "running" /\ PhaseOf(previous) = "focus"
               /\ StatusOf(current) = "running" /\ PhaseOf(current) = "break")
               => ~presenter'.userOverlayActive /\ ~presenter'.overlay
          /\ (/\ changed
               /\ \/ StatusOf(current) = "running" /\ PhaseOf(current) = "focus"
                  \/ StatusOf(current) = "paused"
                  \/ StatusOf(current) = "break_ready")
               => presenter'.userOverlayActive
          /\ ~changed => presenter'.userOverlayActive = presenter.userOverlayActive]_vars

\* a presenter with the flag set and running/focus cached has received
\* running/break
FlagClearedByBreak ==
  /\ presenter.event = "STATE_UPDATED"
  /\ presenter.previous = <<"running", "focus", TRUE>>
  /\ OnBreak(presenter.latestState)
  /\ ~presenter.userOverlayActive
  /\ ~presenter.overlay

\* C26: a click on the close button or the backdrop changes neither the
\* overlay nor the forced-open flag while the cached state is running/focus,
\* paused or break_ready; with any other cached state, or none, it removes
\* the overlay and clears the flag.
DismissalGuard ==
  [][ClickClose =>
       LET cached == presenter.latestState
           locked == \/ StatusOf(cached) = "running" /\ PhaseOf(cached) = "focus"
                     \/ StatusOf(cached) = "paused"
                     \/ StatusOf(cached) = "break_ready"
       IN IF locked
            THEN /\ presenter'.overlay
                 /\ presenter'.userOverlayActive = presenter.userOverlayActive
            ELSE /\ ~presenter'.overlay
                 /\ ~presenter'.userOverlayActive]_vars

\* a click on the backdrop was refused while the session was paused
DismissalRefused ==
  /\ presenter.event = "dismiss"
  /\ StatusOf(presenter.latestState) = "paused"
  /\ presenter.overlay
  /\ presenter.userOverlayActive

\* the session commands of presenter p that are on their way to the listener
\* (requests) or back from it (responses p has not taken yet)
InFlight(requests, p) ==
  Cardinality({i \in DOMAIN requests : requests[i].type # "GET_STATE"})
  + IF p.pc = "ready"
      THEN Cardinality({i \in DOMAIN p.channel : p.channel[i].type = "response"})
      ELSE 0

\* a click on an action button or a change of a duration input
UserAction ==
  \/ ClickStart
  \/ ChangeDuration
  \/ ClickStartBreak
  \/ ClickPause
  \/ ClickResume
  \/ ClickStop

\* C27: the presenter never has more than one session command in flight, and
\* a user action that arrives while a command is in flight sends nothing.
OneCommandInFlight ==
  [][/\ InFlight(inbox', presenter') <= 1
     /\ (UserAction /\ InFlight(inbox, presenter) = 1) => inbox' = inbox]_vars

\* a duration input was changed while a command was in flight: nothing was
\* sent
ActionWhileInFlight ==
  /\ presenter.event = "saveDurations"
  /\ presenter.sent = <<>>
  /\ presenter.isActionInProgress
  /\ InFlight(inbox, presenter) = 1

\* C28: when the value typed into a duration input is not a number or not
\* positive, saveDurations and startSession send no message (and so the stored
\* durations stay as they are).
InvalidInputSendsNothing ==
  (presenter.typed # <<>> /\ presenter.typed[2] \in {NotANumber, Number(0)})
    => presenter.sent = <<>>

\* C29: the one-second tick of the countdown changes neither the cached
\* state nor the forced-open flag nor the presence of the overlay, sends no
\* message and writes nothing to storage.
TickOnlyRenders ==
  [][CountdownTick =>
       /\ presenter'.latestState = presenter.latestState
       /\ presenter'.userOverlayActive = presenter.userOverlayActive
       /\ presenter'.overlay = presenter.overlay
       /\ presenter'.isActionInProgress = presenter.isActionInProgress
       /\ inbox' = inbox
       /\ storage' = storage
       /\ alarm' = alarm]_vars

\* a tick has rendered 00:00 for a running cached state whose phase is over
TickedAtZero ==
  /\ presenter.event = "tick"
  /\ StatusOf(presenter.latestState) = "running"
  /\ presenter.latestState[1].nextTransition <= now
  /\ presenter.countdown = <<formatMs(0)>>

(* ----------------------- the countdown of the overlay ----------------- *)
\* A presenter whose overlay is open on a cached state that does not change,
\* while the clock moves and the interval fires.
\* the cached states: a focus phase of one minute started at StartTime, a
\* break, a paused session, a focus phase that has ended
CountdownSamples ==
  LET running == [DEFAULT_STATE EXCEPT !.status = "running", !.focusMinutes = 1,
                                       !.cycleStart = StartTime,
                                       !.nextTransition = StartTime + Tick]
  IN {running, [running EXCEPT !.phase = "break"]}
     \cup {[DEFAULT_STATE EXCEPT !.status = "paused", !.remainingMs = ms] :
             ms \in {0, 999, 59999, 90500, 120 * Tick}}
     \cup {[DEFAULT_STATE EXCEPT !.status = "break_ready", !.phase = "break",
                                 !.remainingMs = toMs(Minutes(DEFAULT_BREAK_MINUTES))]}

\* the readings of the clock from two seconds before the end of the minute
CountdownTimes == {StartTime + Tick - 2000 + 250 * k : k \in 0 .. 4 * (2 + MaxSeconds)}

InitCountdown ==
  /\ storage = <<>>
  /\ now \in {StartTime} \cup {t \in CountdownTimes : t <= StartTime + Tick - 1000}
  /\ alarm = Null
  /\ alarmQueued = {}
  /\ inbox = <<>>
  /\ op = "none"
  /\ prevOp = "none"
  /\ response = <<>>
  /\ writes = <<>>
  /\ broadcasts = <<>>
  /\ normCall = <<>>
  /\ tasks = <<>>
  /\ round = <<>>
  /\ \E state \in CountdownSamples :
       presenter = updateOverlay([NewPresenter EXCEPT !.pc = "ready",
                                                      !.latestState = <<state>>,
                                                      !.userOverlayActive = TRUE],
                                 <<state>>, now)

\* a quarter of a second or a second passes
TimePasses ==
  /\ \E t \in {now + 250, now + 1000} :
       /\ t \in CountdownTimes
       /\ now' = t
  /\ UNCHANGED <<storage, alarm, alarmQueued, inbox, op, prevOp, response, writes,
                 broadcasts, normCall, tasks, round, presenter>>

NextCountdown ==
  \/ TimePasses
  \/ CountdownTick

SpecCountdown == InitCountdown /\ [][NextCountdown]_vars

\* the time a cached state has left at t, in ms
RemainingAt(state, t) ==
  IF state.status = "running" THEN Max(0, state.nextTransition - t)
                              ELSE state.remainingMs

\* the seconds a text of the countdown stands for
SecondsShown(text) == 60 * text.minutes + text.seconds

\* C30: a tick on a running, paused or break_ready cached state shows
\* max(0, nextTransition - now) when running and remainingMs otherwise, as
\* whole minutes that are not negative and seconds in 0..59, and it never
\* shows more than the tick before it on the same cached state.
CountdownShowsRemaining ==
  [][CountdownTick =>
       LET state == presenter.latestState[1]
           ms == RemainingAt(state, now)
           text == presenter'.countdown[1]
       IN state.status \in {"running", "paused", "break_ready"} =>
            /\ text.minutes = (ms \div 1000) \div 60
            /\ text.seconds = (ms \div 1000) % 60
            /\ text.minutes >= 0
            /\ text.seconds \in 0 .. 59
            /\ presenter.countdown # <<>> =>
                 SecondsShown(text) <= SecondsShown(presenter.countdown[1])]_vars

\* the tick shows 00:00 after the phase of the running cached state is over
CountdownStaysAtZero ==
  /\ presenter.event = "tick"
  /\ StatusOf(presenter.latestState) = "running"
  /\ now > presenter.latestState[1].nextTransition
  /\ presenter.countdown = <<[minutes |-> 0, seconds |-> 0]>>

\* C31: after the presenter has handled OPEN_CONTROLS the forced-open flag
\* is set and the overlay is present, whatever the session state is, and the
\* cached state is the one the message carried, if it carried one.
OpenControlsForcesOverlay ==
  [][ReceiveOpenControls =>
       /\ presenter'.userOverlayActive
       /\ presenter'.overlay
       /\ presenter'.latestState =
            IF Head(presenter.channel).state # <<>>
              THEN Head(presenter.channel).state ELSE presenter.latestState]_vars

\* OPEN_CONTROLS has opened the overlay during a running break, replacing a
\* cached state that was out of date
OpenedDuringBreak ==
  /\ presenter.event = "OPEN_CONTROLS"
  /\ OnBreak(presenter.latestState)
  /\ presenter.opened
  /\ presenter.overlay
  /\ presenter.userOverlayActive
  /\ presenter.latestState = <<storage[STORAGE_KEY]>>

\* ---------------------------------------------------------------------------
\* the shortcut list (src/content-script.js, first version)
\*
\* presenter is here the record of one page:
\*   pc        "start" before initialize, "ready" once loadShortcuts was sent
\*   shortcuts the module variable `shortcuts`
\*   awaiting  the callbacks of the requests sent and not yet answered, in the
\*             order of the requests: which operation waits, the list it found
\*             and the shortcut it added
\*   channel   the answers on their way to the callbacks: <<list>>, or <<>>
\*             when chrome.runtime.lastError is set
\*   event     the last step of the page
\*   previous, added   the list the last completed addShortcut found and the
\*             shortcut it added
\*   settled   <<list>> once an addShortcut round trip has completed and no
\*             SAVE_SHORTCUTS was sent since, <<>> otherwise
\*   expect    settled as it was when GET_SHORTCUTS was sent
\* inbox holds the requests the background has not handled; live tells whether
\* the page that sent the request still exists.
\* ---------------------------------------------------------------------------

\* the longest list a page builds
MaxShortcuts == 2
\* the most requests that wait for the background at a time
MaxInFlight == 2

SHORTCUTS_KEY == "xUnderclassShortcuts"
DEFAULT_SHORTCUT_COLOR == "#1da1f2"

\* what the user types into the name and the URL input, already trimmed
ShortcutNames == {"", "x"}
ShortcutUrls == {"", "x.com", "https://x.com"}

\* new URL(url) does not throw
isValidUrl(url) == url \in {"https://x.com", "https://y.com"}

ShortcutLists ==
  {<<>>, <<[name |-> "x", url |-> "https://y.com", color |-> DEFAULT_SHORTCUT_COLOR]>>}

\* the stored list, [] when nothing is stored
storedShortcuts(s) == IF SHORTCUTS_KEY \in DOMAIN s THEN s[SHORTCUTS_KEY] ELSE <<>>

\* the background's handling of GET_SHORTCUTS and SAVE_SHORTCUTS: the list to
\* store and the list to answer with
handleShortcuts(m, s) ==
  IF m.type = "SAVE_SHORTCUTS"
    THEN [storage |-> (SHORTCUTS_KEY :> m.shortcuts), shortcuts |-> m.shortcuts]
    ELSE [storage |-> s, shortcuts |-> storedShortcuts(s)]

\* the callback of loadShortcuts and of saveShortcutsToStorage
resolveShortcuts(answer) == IF answer = <<>> THEN <<>> ELSE answer[1]

saveShortcutsToStorage(newShortcuts) ==
  [type |-> "SAVE_SHORTCUTS", shortcuts |-> newShortcuts, live |-> TRUE]

\* addShortcut up to its await, the save request of the list before the push
addShortcutSavesFirst(p, name, url, color) ==
  IF name = "" \/ url = "" \/ ~isValidUrl(url)
    THEN [presenter |-> [p EXCEPT !.event = "feedback"], sent |-> <<>>]
    ELSE LET new == [name |-> name, url |-> url, color |-> color]
         IN [presenter |-> [p EXCEPT !.shortcuts = Append(p.shortcuts, new),
                                     !.awaiting = Append(p.awaiting,
                                        [kind |-> "added", previous |-> p.shortcuts, added |-> <<new>>]),
                                     !.settled = <<>>,
                                     !.event = "addShortcut"],
             sent |-> <<saveShortcutsToStorage(p.shortcuts)>>]

\* addShortcut up to its await
addShortcut(p, name, url, color) ==
  IF name = "" \/ url = "" \/ ~isValidUrl(url)
    THEN [presenter |-> [p EXCEPT !.event = "feedback"], sent |-> <<>>]
    ELSE LET new == [name |-> name, url |-> url, color |-> color]
             pushed == Append(p.shortcuts, new)
         IN [presenter |-> [p EXCEPT !.shortcuts = pushed,
                                     !.awaiting = Append(p.awaiting,
                                        [kind |-> "added", previous |-> p.shortcuts, added |-> <<new>>]),
                                     !.settled = <<>>,
                                     !.event = "addShortcut"],
             sent |-> <<saveShortcutsToStorage(pushed)>>]

\* shortcuts.splice(index, 1)
splice(list, index) == [i \in 1..(Len(list) - 1) |-> IF i < index THEN list[i] ELSE list[i + 1]]

\* deleteShortcut up to its await
deleteShortcut(p, index) ==
  LET spliced == splice(p.shortcuts, index)
  IN [presenter |-> [p EXCEPT !.shortcuts = spliced,
                              !.awaiting = Append(p.awaiting,
                                 [kind |-> "deleted", previous |-> p.shortcuts, added |-> <<>>]),
                              !.settled = <<>>,
                              !.event = "deleteShortcut"],
      sent |-> <<saveShortcutsToStorage(spliced)>>]

\* the continuation of loadShortcuts and saveShortcutsToStorage after the await
shortcutsResolved(p) ==
  LET waiting == Head(p.awaiting)
      list == resolveShortcuts(Head(p.channel))
      completed == waiting.kind = "added" /\ Head(p.channel) # <<>>
  IN [p EXCEPT !.shortcuts = list,
               !.awaiting = Tail(p.awaiting),
               !.channel = Tail(p.channel),
               !.event = IF Head(p.channel) = <<>> THEN "lastError" ELSE waiting.kind,
               !.previous = IF completed THEN waiting.previous ELSE @,
               !.added = IF completed THEN waiting.added ELSE @,
               !.settled = IF completed /\ Len(p.awaiting) = 1 THEN <<list>>
                           ELSE IF waiting.kind = "loaded" THEN @ ELSE <<>>]

NewPage(previous, added, settled) ==
  [pc |-> "start", shortcuts |-> <<>>, awaiting |-> <<>>, channel |-> <<>>,
   event |-> "none", previous |-> previous, added |-> added, settled |-> settled,
   expect |-> <<>>]

ShortcutsUnchanged ==
  UNCHANGED <<now, alarm, alarmQueued, op, prevOp, response, writes, broadcasts,
              normCall, tasks, round>>

\* initialize: shortcuts = await loadShortcuts()
LoadShortcuts ==
  /\ presenter.pc = "start"
  /\ Len(inbox) < MaxInFlight
  /\ presenter' = [presenter EXCEPT !.pc = "ready",
                                    !.awaiting = <<[kind |-> "loaded", previous |-> <<>>, added |-> <<>>]>>,
                                    !.expect = presenter.settled,
                                    !.event = "loadShortcuts"]
  /\ inbox' = Append(inbox, [type |-> "GET_SHORTCUTS", shortcuts |-> <<>>, live |-> TRUE])
  /\ UNCHANGED storage
  /\ ShortcutsUnchanged

\* a click on the add button of the settings panel
AddShortcut ==
  /\ presenter.pc = "ready"
  /\ Len(presenter.shortcuts) < MaxShortcuts
  /\ Len(presenter.awaiting) < MaxInFlight
  /\ Len(inbox) < MaxInFlight
  /\ \E name \in ShortcutNames : \E url \in ShortcutUrls :
       \E r \in {addShortcut(presenter, name, url, DEFAULT_SHORTCUT_COLOR)} :
         /\ presenter' = r.presenter
         /\ inbox' = inbox \o r.sent
  /\ UNCHANGED storage
  /\ ShortcutsUnchanged

\* a click on the delete button of a shortcut of the list
DeleteShortcut ==
  /\ presenter.pc = "ready"
  /\ Len(presenter.awaiting) < MaxInFlight
  /\ Len(inbox) < MaxInFlight
  /\ \E index \in 1..Len(presenter.shortcuts) :
       \E r \in {deleteShortcut(presenter, index)} :
         /\ presenter' = r.presenter
         /\ inbox' = inbox \o r.sent
  /\ UNCHANGED storage
  /\ ShortcutsUnchanged

\* the background handles the oldest request and answers it
ServeShortcuts ==
  /\ inbox # <<>>
  /\ \E r \in {handleShortcuts(Head(inbox), storage)} :
       /\ storage' = r.storage
       /\ presenter' = IF Head(inbox).live
                         THEN [presenter EXCEPT !.channel = Append(@, <<r.shortcuts>>)]
                         ELSE presenter
  /\ inbox' = Tail(inbox)
  /\ ShortcutsUnchanged

\* the request reaches no listener: the callback runs with lastError set
ShortcutsUnanswered ==
  /\ inbox # <<>>
  /\ Head(inbox).live
  /\ presenter' = [presenter EXCEPT !.channel = Append(@, <<>>)]
  /\ inbox' = Tail(inbox)
  /\ UNCHANGED storage
  /\ ShortcutsUnchanged

\* the callback of the oldest request runs
ReceiveShortcuts ==
  /\ presenter.channel # <<>>
  /\ presenter' = shortcutsResolved(presenter)
  /\ UNCHANGED <<storage, inbox>>
  /\ ShortcutsUnchanged

\* the page is loaded anew: its requests under way are answered to nobody
ReloadPage ==
  /\ presenter.pc = "ready"
  /\ presenter' = NewPage(presenter.previous, presenter.added, presenter.settled)
  /\ inbox' = [i \in 1..Len(inbox) |-> [inbox[i] EXCEPT !.live = FALSE]]
  /\ UNCHANGED storage
  /\ ShortcutsUnchanged

InitShortcuts ==
  /\ storage \in {<<>>} \cup {SHORTCUTS_KEY :> list : list \in ShortcutLists}
  /\ now = StartTime
  /\ alarm = Null
  /\ alarmQueued = {}
  /\ inbox = <<>>
  /\ op = "none"
  /\ prevOp = "none"
  /\ response = <<>>
  /\ writes = <<>>
  /\ broadcasts = <<>>
  /\ normCall = <<>>
  /\ tasks = <<>>
  /\ round = <<>>
  /\ presenter = NewPage(<<>>, <<>>, <<>>)

NextShortcuts ==
  \/ LoadShortcuts
  \/ AddShortcut
  \/ DeleteShortcut
  \/ ServeShortcuts
  \/ ShortcutsUnanswered
  \/ ReceiveShortcuts
  \/ ReloadPage

SpecShortcuts == InitShortcuts /\ [][NextShortcuts]_vars

PhaseMinutes(state) == IF state.phase = "focus" THEN state.focusMinutes ELSE state.breakMinutes

\* C33: in every stored state that is running, nextTransition - cycleStart
\* is the stored duration of its phase in milliseconds.
IntervalLength ==
  (HasState /\ Stored.status = "running") =>
     /\ Stored.nextTransition # Null
     /\ Stored.cycleStart # Null
     /\ Stored.nextTransition - Stored.cycleStart = PhaseMinutes(Stored) * MS_PER_MINUTE

\* a session resumed after time has passed while it was paused: cycleStart
\* was moved forward
ResumedLater ==
  /\ op = "RESUME_SESSION"
  /\ HasState
  /\ Stored.status = "running"
  /\ Stored.nextTransition > now
  /\ Stored.cycleStart > StartTime
  /\ Stored.cycleStart < now

\* C34: in every stored state that is break_ready the phase is break and
\* remainingMs is the stored breakMinutes in milliseconds, also after
\* SET_DURATIONS has changed breakMinutes of a break_ready state.
BreakReadyHoldsBreakLength ==
  (HasState /\ Stored.status = "break_ready") =>
     /\ Stored.phase = "break"
     /\ Stored.remainingMs = Stored.breakMinutes * MS_PER_MINUTE

\* SET_DURATIONS has written a break_ready state with other break minutes
\* than the session began with
DurationsSetWhileBreakReady ==
  /\ op = "SET_DURATIONS"
  /\ HasState
  /\ Stored.status = "break_ready"
  /\ Stored.breakMinutes # DEFAULT_BREAK_MINUTES
  /\ Stored.remainingMs = Stored.breakMinutes * MS_PER_MINUTE

\* C35: when no handler is in progress, an alarm is pending exactly when the
\* stored state is running, also after handlers have run interleaved at
\* their awaits.
NoStuckRunning ==
  (Quiescent /\ HasState) => ((Stored.status = "running") <=> (alarm # Null))

\* ---------------------------------------------------------------------------
\* a focus phase left to itself: no request is sent, the clock advances, the
\* alarm fires and its callback runs
\* ---------------------------------------------------------------------------

\* a focus phase of one minute that began at cycleStart
FocusSince(cycleStart, breakMinutes) ==
  [DEFAULT_STATE EXCEPT !.status = "running", !.focusMinutes = 1,
                        !.breakMinutes = breakMinutes,
                        !.cycleStart = cycleStart,
                        !.nextTransition = cycleStart + MS_PER_MINUTE]

\* The session began now or almost a minute ago, its alarm is pending; the
\* callback of an alarm that fired before the session was started anew may
\* still be waiting to run.
InitExpiry ==
  /\ \E cycleStart \in {StartTime, StartTime - Tick + Jitter} :
     \E breakMinutes \in {1, DEFAULT_BREAK_MINUTES} :
       /\ storage = (STORAGE_KEY :> FocusSince(cycleStart, breakMinutes))
       /\ alarm = scheduleAlarm(FocusSince(cycleStart, breakMinutes), cycleStart)
  /\ now = StartTime
  /\ alarmQueued \in SUBSET {ALARM_NAME}
  /\ inbox = <<>>
  /\ op = "none"
  /\ prevOp = "none"
  /\ response = <<>>
  /\ writes = <<>>
  /\ broadcasts = <<>>
  /\ normCall = <<>>
  /\ tasks = <<>>
  /\ round = <<>>
  /\ presenter = <<>>

NextExpiry ==
  \/ ClockTick
  \/ AlarmFires
  \/ HandleAlarm
  \/ InitializeState

\* time advances, a pending alarm that is due fires, its callback runs
SpecExpiry ==
  /\ InitExpiry
  /\ [][NextExpiry]_vars
  /\ WF_vars(ClockTick)
  /\ WF_vars(AlarmFires)
  /\ WF_vars(HandleAlarm)

\* C36: a stored state that is running in the focus phase becomes
\* break_ready, and a STATE_UPDATED carrying break_ready is broadcast, when
\* no request is sent, time advances and pending alarms fire.
FocusExpires ==
  (HasState /\ Stored.status = "running" /\ Stored.phase = "focus")
    ~> (/\ HasState
        /\ Stored.status = "break_ready"
        /\ \E i \in DOMAIN broadcasts : broadcasts[i].status = "break_ready")

\* C37: when the presenter is subscribed, none of its commands is in flight
\* and every response and STATE_UPDATED sent to its tab has been delivered,
\* its cached state is the stored state.
PresenterConverges ==
  ( /\ presenter.pc = "ready"
    /\ ~presenter.isActionInProgress
    /\ inbox = <<>>
    /\ presenter.channel = <<>> )
  => presenter.latestState = loadState(storage)

\* ---------------------------------------------------------------------------
\* the presenter alone with the background and their scheduling: the
\* listener handles a request that has reached it, and the tab runs the
\* callback or the listener of a message that has reached it.  The user
\* opens the overlay through the toolbar button.
\* ---------------------------------------------------------------------------
NextRoundTrip ==
  \/ Initialize
  \/ StateRequested
  \/ Subscribe
  \/ NoListener
  \/ ReceiveStateUpdated
  \/ ReceiveOpenControls
  \/ ReceiveResponse
  \/ ClickStart
  \/ ChangeDuration
  \/ ClickStartBreak
  \/ ClickPause
  \/ ClickResume
  \/ ClickStop
  \/ ClickClose
  \/ CountdownTick
  \/ Answers
  \/ HandlingFails
  \/ ActionClick

SpecRoundTrip ==
  /\ InitPresenter
  /\ [][NextRoundTrip]_vars
  /\ WF_vars(Answers \/ HandlingFails)
  /\ WF_vars(StateRequested)
  /\ WF_vars(NoListener)
  /\ WF_vars(ReceiveStateUpdated)
  /\ WF_vars(ReceiveOpenControls)
  /\ WF_vars(ReceiveResponse)

\* C38: the handler of a command's response, with a state or without one,
\* leaves isActionInProgress false and the buttons enabled, and every command
\* in progress comes to that point: the guard never stays set.
GuardIsReleased ==
  /\ [][ReceiveResponse =>
          /\ ~presenter'.isActionInProgress
          /\ ~presenter'.disabled
          /\ presenter'.awaiting = <<>>]_vars
  /\ (presenter.isActionInProgress ~> ~presenter.isActionInProgress)

\* a command was answered with no state: the guard is released and the
\* buttons of the overlay can be clicked again
ReleasedAfterNull ==
  /\ presenter.event = "null response"
  /\ ~presenter.isActionInProgress
  /\ presenter.awaiting = <<>>
  /\ presenter.overlay
  /\ ~presenter.disabled

\* ---------------------------------------------------------------------------
\* the alarm callback on a state its alarm was not set for: the alarm fired,
\* and before its callback ran a command wrote another state
\* ---------------------------------------------------------------------------

\* a phase of one minute that ends at nextTransition
RunningUntil(phase, nextTransition) ==
  [DEFAULT_STATE EXCEPT !.status = "running", !.phase = phase,
                        !.focusMinutes = 1, !.breakMinutes = 1,
                        !.cycleStart = nextTransition - MS_PER_MINUTE,
                        !.nextTransition = nextTransition]

\* the states the callback may find: stopped, paused with less than 200 ms
\* left, waiting for the break, or running to end in 100 ms or in a minute
AlarmSamples ==
  { DEFAULT_STATE,
    [DEFAULT_STATE EXCEPT !.status = "paused", !.focusMinutes = 1,
                          !.cycleStart = StartTime - MS_PER_MINUTE + Jitter,
                          !.remainingMs = Jitter],
    [DEFAULT_STATE EXCEPT !.status = "break_ready", !.phase = "break",
                          !.remainingMs = toMs(Minutes(DEFAULT_BREAK_MINUTES))] }
  \cup { RunningUntil(phase, StartTime + ahead) :
           phase \in {"focus", "break"}, ahead \in {Jitter, MS_PER_MINUTE} }

InitAlarm ==
  /\ \E state \in AlarmSamples :
       /\ storage = (STORAGE_KEY :> state)
       /\ alarm = IF state.status = "running"
                    THEN scheduleAlarm(state, state.cycleStart) ELSE Null
  /\ now = StartTime
  /\ alarmQueued = {ALARM_NAME}
  /\ inbox = <<>>
  /\ op = "none"
  /\ prevOp = "none"
  /\ response = <<>>
  /\ writes = <<>>
  /\ broadcasts = <<>>
  /\ normCall = <<>>
  /\ tasks = <<>>
  /\ round = <<>>
  /\ presenter = <<>>

SpecAlarm == InitAlarm /\ [][NextExpiry]_vars

\* the alarm callback finds a stored state that is not running, or one that
\* is running with nextTransition after the last Date.now() of the callback
StaleOrEarly ==
  /\ HandleAlarm
  /\ HasState
  /\ Stored.status # "running" \/ Stored.nextTransition > now'

\* the callback leaves the session where it was and broadcasts nothing
LeavesSession ==
  /\ storage'[STORAGE_KEY].status = Stored.status
  /\ storage'[STORAGE_KEY].phase = Stored.phase
  /\ storage'[STORAGE_KEY].cycleStart = Stored.cycleStart
  /\ storage'[STORAGE_KEY].nextTransition = Stored.nextTransition
  /\ storage'[STORAGE_KEY].remainingMs = Stored.remainingMs
  /\ broadcasts' = <<>>

\* the statement of C39 as the spec has it: the alarm is re-created for
\* nextTransition
StaleAlarmReCreatedAtTransition ==
  [][StaleOrEarly =>
       /\ LeavesSession
       /\ alarm' = IF Stored.status = "running" THEN Stored.nextTransition ELSE Null]_vars

\* C39: an alarm callback that finds the stored state not running, or
\* running with nextTransition still ahead, leaves status, phase, cycleStart,
\* nextTransition and remainingMs as they are and broadcasts nothing; the
\* alarm is cleared when the state is not running and re-created for
\* max(now + 200 ms, nextTransition) when it is.
StaleAlarmIsHarmless ==
  [][StaleOrEarly =>
       /\ LeavesSession
       /\ alarm' = IF Stored.status = "running"
                     THEN Max(now' + ALARM_LEAD_MS, Stored.nextTransition) ELSE Null]_vars

\* the callback ran less than 200 ms before the end of the running phase and
\* set the alarm 200 ms ahead
EarlyAlarmWithinLead ==
  /\ op = "alarm"
  /\ HasState
  /\ Stored.status = "running"
  /\ Stored.nextTransition > now
  /\ Stored.nextTransition < now + ALARM_LEAD_MS
  /\ broadcasts = <<>>
  /\ alarm = now + ALARM_LEAD_MS

====
